---- MODULE Spec2Model ----
(***************************************************************************)
(* Model of gmaps_scraper_server/scraper.py: the pipeline orchestrator     *)
(* scrape_google_maps, the consent handler handle_consent_dialog, the two  *)
(* link-discovery loops (feed scrolling and collect_place_links_global)    *)
(* and the per-link extraction loop.  The browser page is the environment: *)
(* every awaited page operation either returns a value drawn from a small  *)
(* set or raises (a Playwright TimeoutError, or any other Exception).      *)
(***************************************************************************)
EXTENDS Integers, Sequences, FiniteSets, TLC

(* ---------------------------------------------------------------------- *)
(* Bounds of the model                                                     *)
(* ---------------------------------------------------------------------- *)
MaxLinks == 2          \* place URLs the page can ever show: 1..MaxLinks
MaxHeight == 1         \* scroll extents the feed can report: 0..MaxHeight
MaxPlacesArg == 2      \* largest max_places argument tried
MaxRun == 6            \* iterations counted since the scroll extent last changed

(* ---------------------------------------------------------------------- *)
(* Program constants                                                       *)
(* ---------------------------------------------------------------------- *)
MAX_SCROLL_ATTEMPTS_WITHOUT_NEW_LINKS == 5
GLOBAL_MAX_ITERATIONS == 20

NoMax == 0 - 1         \* max_places=None (the default argument)

Links == 1..MaxLinks
Heights == 0..MaxHeight
MaxPlacesArgs == {NoMax} \cup (1..MaxPlacesArg)
ExcKinds == {"timeout", "error"}   \* PlaywrightTimeoutError / any other Exception

accept_texts == <<"Accept all", "Alle akzeptieren", "I agree", "Ich stimme zu", "Akzeptieren">>
reject_texts == <<"Reject all", "Alle ablehnen", "Ablehnen">>

ConsentLabels == accept_texts \o reject_texts
NumAccept == Len(accept_texts)
NumLabels == Len(ConsentLabels)

(* Button texts a page may show, and for each the labels that             *)
(* get_by_role("button").filter(has_text=label) matches: has_text with a   *)
(* string is a case-insensitive substring match.                           *)
ButtonTexts == {"Accept all", "Reject all", "Alle akzeptieren", "Alle ablehnen", "Sign in"}

HasText(button, text) ==
    CASE button = "Accept all"       -> text = "Accept all"
      [] button = "Reject all"       -> text = "Reject all"
      [] button = "Alle akzeptieren" -> text \in {"Alle akzeptieren", "Akzeptieren"}
      [] button = "Alle ablehnen"    -> text \in {"Alle ablehnen", "Ablehnen"}
      [] OTHER                       -> FALSE

ButtonCount(btns, text) == Cardinality({b \in btns : HasText(b, text)})

(* the labels that match some button of a page *)
MatchingLabels(btns) == {i \in 1..NumLabels : ButtonCount(btns, ConsentLabels[i]) > 0}

Pages == { {}, {"Sign in"}, {"Accept all", "Reject all"},
           {"Alle akzeptieren", "Alle ablehnen"} }

(* ---------------------------------------------------------------------- *)
(* Markup of a place page and the JSON extraction pipeline on it.          *)
(* An optional value is a set: {} is None, {r} is the value r.             *)
(* ---------------------------------------------------------------------- *)
None == {}
Some(r) == {r}

(* ---------------------------------------------------------------------- *)
(* Decoded JSON.  A value carries its Python type: None, bool, a number,   *)
(* a str, a list or a dict.  A str is a sequence of text pieces (single    *)
(* characters where characters matter), a list a sequence of values        *)
(* (Python index i is position i + 1), a dict a sequence of <<key, value>> *)
(* pairs in insertion order.                                               *)
(* ---------------------------------------------------------------------- *)
Null == [t |-> "null", v |-> <<>>]
Num(n) == [t |-> "num", v |-> n]
Str(s) == [t |-> "str", v |-> s]
Arr(a) == [t |-> "arr", v |-> a]
Obj(d) == [t |-> "obj", v |-> d]

(* bool(x) *)
Truthy(x) ==
    CASE x.t = "null" -> FALSE
      [] x.t = "bool" -> x.v
      [] x.t = "num"  -> x.v # 0
      [] OTHER        -> Len(x.v) > 0

(* The keys a path is made of: an int (a bool is one too), a str, or       *)
(* anything else (a float, None).                                          *)
Index(n) == [kind |-> "int", key |-> n]
Key(s) == [kind |-> "str", key |-> s]
OtherKey == [kind |-> "other", key |-> <<>>]

(* key in current, for a dict decoded from JSON: its keys are strings. *)
HasKey(dict, key) ==
    key.kind = "str" /\ \E i \in DOMAIN dict : dict[i][1] = key.key

(* current[key], for a dict *)
ValueAt(dict, key) ==
    dict[CHOOSE i \in DOMAIN dict : dict[i][1] = key.key][2]

RECURSIVE safe_get(_, _)
(* safe_get without the test 0 <= key: current[key] counts a negative      *)
(* index from the end of the list.                                         *)
safe_get_from_end(data, keys) ==
    IF keys = <<>> THEN data
    ELSE LET key == Head(keys) IN
         IF data.t = "arr"
         THEN IF key.kind = "int" /\ 0 - Len(data.v) <= key.key
                 /\ key.key < Len(data.v)
              THEN safe_get(data.v[(IF key.key < 0
                                    THEN Len(data.v) + key.key
                                    ELSE key.key) + 1], Tail(keys))
              ELSE Null
         ELSE IF data.t = "obj"
         THEN IF HasKey(data.v, key)
              THEN safe_get(ValueAt(data.v, key), Tail(keys))
              ELSE Null
         ELSE Null

(* safe_get(data, *keys): None as soon as a key does not lead on. *)
safe_get(data, keys) ==
    IF keys = <<>> THEN data
    ELSE LET key == Head(keys) IN
         IF data.t = "arr"
         THEN IF key.kind = "int" /\ 0 <= key.key /\ key.key < Len(data.v)
              THEN safe_get(data.v[key.key + 1], Tail(keys))
              ELSE Null
         ELSE IF data.t = "obj"
         THEN IF HasKey(data.v, key)
              THEN safe_get(ValueAt(data.v, key), Tail(keys))
              ELSE Null
         ELSE Null

get_main_name(data) == safe_get(data, <<Index(11)>>)

get_place_id(data) == safe_get(data, <<Index(10)>>)

(* get_gps_coordinates with "or" in place of "and". *)
get_gps_coordinates_either(data) ==
    LET lat == safe_get(data, <<Index(9), Index(2)>>)
        lon == safe_get(data, <<Index(9), Index(3)>>)
    IN  IF lat.t # "null" \/ lon.t # "null"
        THEN Obj(<< <<"latitude", lat>>, <<"longitude", lon>> >>)
        ELSE Null

get_gps_coordinates(data) ==
    LET lat == safe_get(data, <<Index(9), Index(2)>>)
        lon == safe_get(data, <<Index(9), Index(3)>>)
    IN  IF lat.t # "null" /\ lon.t # "null"
        THEN Obj(<< <<"latitude", lat>>, <<"longitude", lon>> >>)
        ELSE Null

(* filter(None, seq): the truthy elements, in order *)
RECURSIVE FilterTruthy(_)
FilterTruthy(seq) ==
    IF seq = <<>> THEN <<>>
    ELSE IF Truthy(Head(seq)) THEN <<Head(seq)>> \o FilterTruthy(Tail(seq))
    ELSE FilterTruthy(Tail(seq))

(* sep.join(strs) for a sequence of str values, as a text *)
RECURSIVE Join(_, _)
Join(sep, strs) ==
    IF strs = <<>> THEN <<>>
    ELSE IF Len(strs) = 1 THEN strs[1].v
    ELSE strs[1].v \o sep \o Join(sep, Tail(strs))

(* What str.join raises on an element that is not a str. *)
TypeError == [t |-> "exc", v |-> <<"TypeError">>]

(* get_complete_address joining every part, empty ones included. *)
get_complete_address_unfiltered(data) ==
    LET address_parts == safe_get(data, <<Index(2)>>) IN
    IF address_parts.t = "arr"
    THEN LET kept == address_parts.v IN
         IF \E i \in DOMAIN kept : kept[i].t # "str"
         THEN TypeError
         ELSE LET formatted == Join(<<", ">>, kept) IN
              IF formatted # <<>> THEN Str(formatted) ELSE Null
    ELSE Null

get_complete_address(data) ==
    LET address_parts == safe_get(data, <<Index(2)>>) IN
    IF address_parts.t = "arr"
    THEN LET kept == FilterTruthy(address_parts.v) IN
         IF \E i \in DOMAIN kept : kept[i].t # "str"
         THEN TypeError
         ELSE LET formatted == Join(<<", ">>, kept) IN
              IF formatted # <<>> THEN Str(formatted) ELSE Null
    ELSE Null

get_rating(data) == safe_get(data, <<Index(4), Index(7)>>)

get_reviews_count(data) == safe_get(data, <<Index(4), Index(8)>>)

get_website(data) == safe_get(data, <<Index(7), Index(0)>>)

Digits == {"0", "1", "2", "3", "4", "5", "6", "7", "8", "9"}

(* re.sub(r'\D', '', text): the digit characters of a text, in order *)
RECURSIVE OnlyDigits(_)
OnlyDigits(text) ==
    IF text = <<>> THEN <<>>
    ELSE IF Head(text) \in Digits THEN <<Head(text)>> \o OnlyDigits(Tail(text))
    ELSE OnlyDigits(Tail(text))

(* "call_googblue" in s, the icon name being one piece of the URL text *)
HasPhoneIcon(s) == \E i \in DOMAIN s : s[i] = "call_googblue"

(* The for loops of _find_phone_recursively: the first non-empty result    *)
(* over the items (of a list) or the values (of a dict), in order.         *)
RECURSIVE find_phone_recursively(_), FirstPhone(_)
(* The loops taking the last non-empty result instead of the first. *)
FirstPhoneFromEnd(items) ==
    IF items = <<>> THEN Null
    ELSE LET found_phone == find_phone_recursively(items[Len(items)]) IN
         IF Truthy(found_phone) THEN found_phone
         ELSE FirstPhone(SubSeq(items, 1, Len(items) - 1))

FirstPhone(items) ==
    IF items = <<>> THEN Null
    ELSE LET found_phone == find_phone_recursively(Head(items)) IN
         IF Truthy(found_phone) THEN found_phone ELSE FirstPhone(Tail(items))

(* _find_phone_recursively(data_structure) returning the phone string as   *)
(* found, without re.sub.                                                   *)
find_phone_recursively_raw(data_structure) ==
    IF data_structure.t = "arr"
    THEN LET l == data_structure.v
             standardized_number ==
                 IF /\ Len(l) >= 2
                    /\ l[1].t = "str" /\ HasPhoneIcon(l[1].v)
                    /\ l[2].t = "str"
                 THEN l[2].v
                 ELSE <<>>
         IN  IF standardized_number # <<>>
             THEN Str(standardized_number)
             ELSE FirstPhone(l)
    ELSE IF data_structure.t = "obj"
    THEN FirstPhone([i \in DOMAIN data_structure.v |-> data_structure.v[i][2]])
    ELSE Null

find_phone_recursively(data_structure) ==
    IF data_structure.t = "arr"
    THEN LET l == data_structure.v
             standardized_number ==
                 IF /\ Len(l) >= 2
                    /\ l[1].t = "str" /\ HasPhoneIcon(l[1].v)
                    /\ l[2].t = "str"
                 THEN OnlyDigits(l[2].v)
                 ELSE <<>>
         IN  IF standardized_number # <<>>
             THEN Str(standardized_number)
             ELSE FirstPhone(l)
    ELSE IF data_structure.t = "obj"
    THEN FirstPhone([i \in DOMAIN data_structure.v |-> data_structure.v[i][2]])
    ELSE Null

get_phone_number(data_blob) ==
    LET found_phone == find_phone_recursively(data_blob) IN
    IF Truthy(found_phone) THEN found_phone ELSE Null

get_categories(data) == safe_get(data, <<Index(13)>>)

get_thumbnail(data) == safe_get(data, <<Index(14), Index(0), Index(0), Index(6), Index(0)>>)

(* The dict literal of extract_place_data, before None values are dropped. *)
AllFields(data_blob) ==
    [name          |-> get_main_name(data_blob),
     place_id      |-> get_place_id(data_blob),
     coordinates   |-> get_gps_coordinates(data_blob),
     address       |-> get_complete_address(data_blob),
     rating        |-> get_rating(data_blob),
     reviews_count |-> get_reviews_count(data_blob),
     categories    |-> get_categories(data_blob),
     website       |-> get_website(data_blob),
     phone         |-> get_phone_number(data_blob),
     thumbnail     |-> get_thumbnail(data_blob)]

(* {k: v for k, v in place_details.items() if v is not None} *)
DropNone(fields) ==
    [k \in { f \in DOMAIN fields : fields[f].t # "null" } |-> fields[k]]

(* How a call ends: it returns an optional value or an exception leaves it. *)
Returned(value) == [raised |-> FALSE, value |-> value]
Raised == [raised |-> TRUE, value |-> None]

(* extract_place_data(html_content): html_content.located says whether     *)
(* extract_initial_json finds the assignment, html_content.parsed whether  *)
(* parse_json_data finds a payload, html_content.blob is that payload.     *)
extract_place_data(html_content) ==
    IF ~html_content.located THEN Returned(None)
    ELSE IF ~html_content.parsed \/ ~Truthy(html_content.blob)
    THEN Returned(None)
    ELSE LET fields == AllFields(html_content.blob) IN
         IF \E k \in DOMAIN fields : fields[k].t = "exc"
         THEN Raised
         ELSE LET place_details == DropNone(fields) IN
              IF DOMAIN place_details = {}
              THEN Returned(None)
              ELSE Returned(Some(place_details))

(* ---------------------------------------------------------------------- *)
(* Payload blobs: a list whose offsets 2, 4, 7, 9, 10, 11, 13 and 14 hold  *)
(* what the getters read; offset 0 holds data the phone search walks.      *)
(* ---------------------------------------------------------------------- *)
MaxAddressParts == 3

BoundedSeq(S, n) == UNION { [1..k -> S] : k \in 0..n }

Blob(phone, address, rating, website, gps, place_id, name, categories, thumbnail) ==
    Arr(<<phone, Null, address, Null, rating, Null, Null, website, Null, gps,
          place_id, name, Null, categories, thumbnail>>)

PhoneIcon == Str(<<"https://maps.gstatic.com/", "call_googblue", ".png">>)
LongPhone == Str(<<"+", "1", " ", "5", "5", "5", "-", "0", "1", "0", "0">>)
ShortPhone == Str(<<"1", "1", "2">>)

PhoneSlots ==
    { Null,
      Arr(<<PhoneIcon, LongPhone>>),
      Arr(<<PhoneIcon, ShortPhone>>),
      Arr(<<PhoneIcon, Str(<<"n", "/", "a">>)>>),
      Arr(<<Null, Obj(<< <<"tel", Arr(<<PhoneIcon, LongPhone>>)>> >>)>>),
      Arr(<<Str(<<"https://maps.gstatic.com/", "pin.png">>), LongPhone>>) }

AddressParts ==
    { Null, Str(<<>>), Str(<<"Main St 1">>), Str(<<"Berlin">>), Num(5) }

(* Offset 2: absent, a bare string, or a list of up to MaxAddressParts parts. *)
AddressSlots ==
    { Null, Str(<<"Main St 1">>) }
        \cup { Arr(parts) : parts \in BoundedSeq(AddressParts, MaxAddressParts) }

RatingSlots ==
    { Null,
      Arr(<<Null, Null, Null, Null, Null, Null, Null, Num(4), Num(120)>>),
      Arr(<<Null, Null, Null, Null, Null, Null, Null, Num(4)>>),
      Arr(<<Null, Null, Null, Null, Null, Null, Null, Null, Num(120)>>) }

WebsiteSlots == { Null, Arr(<<Str(<<"https://cafe.example">>)>>) }

GpsSlots ==
    { Null,
      Arr(<<Null, Null, Num(52), Num(13)>>),
      Arr(<<Null, Null, Num(0), Num(0)>>),
      Arr(<<Null, Null, Num(52)>>),
      Arr(<<Null, Null, Null, Num(13)>>) }

PlaceIdSlots == { Null, Str(<<"ChIJ123">>) }

NameSlots == { Null, Str(<<"Cafe Mocha">>) }

CategorySlots == { Null, Arr(<<Str(<<"Cafe">>)>>) }

ThumbnailSlots ==
    { Null,
      Arr(<<Arr(<<Arr(<<Null, Null, Null, Null, Null, Null,
                        Arr(<<Str(<<"https://lh3.example/p.jpg">>)>>)>>)>>)>>) }

(* Every shape of the address offset, next to a name that is or is not     *)
(* there.                                                                  *)
AddressBlobs ==
    { Blob(Null, address, Null, Null, Null, Null, name, Null, Null) :
        address \in AddressSlots, name \in NameSlots }

(* Every combination of the other offsets, next to an address that is      *)
(* missing, well formed, or not made of strings.                           *)
FieldBlobs ==
    { Blob(phone, address, rating, website, gps, place_id, name, categories,
           thumbnail) :
        phone \in PhoneSlots,
        address \in { Null, Arr(<<Str(<<"Berlin">>)>>), Arr(<<Num(5)>>) },
        rating \in RatingSlots, website \in WebsiteSlots, gps \in GpsSlots,
        place_id \in PlaceIdSlots, name \in NameSlots,
        categories \in CategorySlots, thumbnail \in ThumbnailSlots }

Blobs == AddressBlobs \cup FieldBlobs

Page(blob) == [located |-> TRUE, parsed |-> TRUE, blob |-> blob]

(* Pages on which locating or parsing fails, or the payload is empty. *)
NoPayloadPages ==
    { [located |-> FALSE, parsed |-> FALSE, blob |-> Null],
      [located |-> TRUE,  parsed |-> FALSE, blob |-> Null],
      Page(Arr(<<>>)) }

(* What page.content() can hand to the field extractor. *)
JsonHtmls == NoPayloadPages \cup { Page(blob) : blob \in Blobs }

(* The place pages the per-link loop meets: no assignment, no payload, a   *)
(* payload without any field, with a name, with a place id, and one whose  *)
(* address parts are not strings.                                          *)
Htmls ==
    { [located |-> FALSE, parsed |-> FALSE, blob |-> Null],
      [located |-> TRUE,  parsed |-> FALSE, blob |-> Null],
      Page(Blob(Null, Null, Null, Null, Null, Null, Null, Null, Null)),
      Page(Blob(Null, Null, Null, Null, Null, Null, Str(<<"Cafe Mocha">>),
                Null, Null)),
      Page(Blob(Null, Null, Null, Null, Null, Str(<<"ChIJ123">>), Null,
                Null, Null)),
      Page(Blob(Null, Arr(<<Num(5)>>), Null, Null, Null, Null,
                Str(<<"Cafe Mocha">>), Null, Null)) }

(* How extract_place_data(html_content) ends on those pages. *)
HtmlOutcomes == { extract_place_data(html) : html \in Htmls }

(* WithLink attaching a URL other than the one being processed. *)
WithLinkOther(place_data, l) ==
    [k \in (DOMAIN place_data) \cup {"link"} |->
        IF k = "link" THEN (l % MaxLinks) + 1 ELSE place_data[k]]

(* place_data['link'] = link *)
WithLink(place_data, l) ==
    [k \in (DOMAIN place_data) \cup {"link"} |->
        IF k = "link" THEN l ELSE place_data[k]]

VARIABLES
    pc,                      \* position in scrape_google_maps
    max_places,              \* argument
    browser,                 \* "none" | "open" | "closed"
    exc,                     \* exception in flight: "none" | "timeout" | "error"
    caught,                  \* except clause that handled it
    abortedAt,               \* position at which the in-flight exception was raised
    buttons,                 \* buttons of the page the search URL served
    dismissed,               \* a click made that page's dialog go away
    label,                   \* index into ConsentLabels of the label being tried
    clicked,                 \* labels whose button was clicked, in order
    feed_found,
    strategy,                \* discovery strategy entered ("none" before)
    place_links,
    new_links_found,
    last_height,
    scroll_attempts_no_new,
    global_place_links,      \* place_links of collect_place_links_global
    global_scroll_attempts_no_new, \* its scroll_attempts_no_new
    scroll_iteration,        \* its loop variable
    observed,                \* hrefs the scroll iterations have collected so far
    snapshots,               \* reasons passed to save_debug_artifacts, in order
    artifacts,               \* debug files written so far
    session,                 \* what the running discovery loop has seen
    todo,                    \* links the for loop has not reached yet
    link,                    \* loop variable of the per-link loop
    processed,               \* links navigated to, in order
    json_none,               \* links for which extract_place_data returned None
    dom_tried,               \* links on which extract_place_data_dom was run
    results,
    html_content,            \* markup handed to extract_place_data
    json_pc,                 \* "idle" | "fields" | "done"
    json_result,             \* outcome of the field extraction
    dom_pc,                  \* position in extract_place_data_dom
    dom_page,                \* what the rendered place page shows
    place_details,           \* the dict extract_place_data_dom is filling
    dom_result,              \* what extract_place_data_dom returned
    call                     \* a function run on its own: name, arguments, result

vars == <<pc, max_places, browser, exc, caught, abortedAt, buttons, dismissed,
          label, clicked, feed_found, strategy, place_links, new_links_found,
          last_height, scroll_attempts_no_new, global_place_links,
          global_scroll_attempts_no_new, scroll_iteration, observed,
          snapshots, artifacts, session, todo, link, processed, json_none, dom_tried, results,
          html_content, json_pc, json_result, dom_pc, dom_page, place_details,
          dom_result, call>>

consentVars == <<buttons, dismissed, label, clicked>>
globalVars == <<global_place_links, global_scroll_attempts_no_new,
                scroll_iteration>>
discoveryVars == <<feed_found, strategy, place_links, new_links_found,
                   last_height, scroll_attempts_no_new, globalVars,
                   observed, snapshots, artifacts, session>>
extractorVars == <<html_content, json_pc, json_result, dom_pc, dom_page,
                   place_details, dom_result, call>>
loopVars == <<todo, link, processed, json_none, dom_tried, results>>

(* extract_place_data is not being run on its own. *)
JsonIdle ==
    /\ html_content = <<>>
    /\ json_pc = "idle"
    /\ json_result = None

(* extract_place_data_dom is not being run. *)
DomIdle ==
    /\ dom_pc = "idle"
    /\ dom_page = <<>>
    /\ place_details = <<>>
    /\ dom_result = None

(* No function is being run on its own. *)
NoCall == [fn |-> "none", args |-> <<>>, done |-> FALSE, result |-> <<>>]

(* Neither extractor is being run on its own, and no other function. *)
ExtractorsIdle == JsonIdle /\ DomIdle /\ call = NoCall

(* A discovery loop that has not run an iteration yet. *)
SessionStart ==
    [stop_reason |-> "none", changed |-> FALSE, end_marker |-> FALSE,
     unchanged_run |-> 0, new_in_run |-> FALSE, quiet_run |-> 0,
     iterations |-> 0]

(* The locals of scrape_google_maps before its first statement. *)
NotStarted ==
    /\ browser = "none"
    /\ exc = "none"
    /\ caught = "none"
    /\ abortedAt = "none"
    /\ buttons = {}
    /\ dismissed = FALSE
    /\ label = 1
    /\ clicked = <<>>
    /\ feed_found = FALSE
    /\ strategy = "none"
    /\ place_links = {}
    /\ new_links_found = FALSE
    /\ last_height = 0
    /\ scroll_attempts_no_new = 0
    /\ global_place_links = {}
    /\ global_scroll_attempts_no_new = 0
    /\ scroll_iteration = 0
    /\ observed = {}
    /\ snapshots = <<>>
    /\ artifacts = {}
    /\ session = SessionStart
    /\ todo = {}
    /\ link = 0
    /\ processed = <<>>
    /\ json_none = {}
    /\ dom_tried = {}
    /\ results = <<>>

Init ==
    /\ pc = "launch"
    /\ max_places \in MaxPlacesArgs
    /\ NotStarted
    /\ ExtractorsIdle

(* An awaited operation raises inside the outer try block. *)
Raise(kind) ==
    /\ exc' = kind
    /\ abortedAt' = pc
    /\ pc' = "except"
    /\ caught' = caught

NoRaise == UNCHANGED <<exc, caught, abortedAt>>

(* ---------------------------------------------------------------------- *)
(* Session acquisition and top-level navigation                            *)
(* ---------------------------------------------------------------------- *)
Launch ==
    /\ pc = "launch"
    /\ \/ /\ browser' = "open"
          /\ pc' = "new_context"
          /\ NoRaise
       \/ /\ \E kind \in ExcKinds : Raise(kind)
          /\ UNCHANGED browser
    /\ UNCHANGED <<extractorVars, max_places, consentVars, discoveryVars, loopVars>>

NewContext ==
    /\ pc = "new_context"
    /\ \/ /\ pc' = "new_page"
          /\ NoRaise
       \/ \E kind \in ExcKinds : Raise(kind)
    /\ UNCHANGED <<extractorVars, max_places, browser, consentVars, discoveryVars, loopVars>>

NewPage ==
    /\ pc = "new_page"
    /\ \/ /\ pc' = "goto_search"
          /\ NoRaise
          /\ UNCHANGED browser
       \/ /\ \E kind \in ExcKinds : Raise(kind)
          /\ UNCHANGED browser
       \/ /\ browser' = "closed"          \* page is None: close, then raise
          /\ Raise("error")
    /\ UNCHANGED <<extractorVars, max_places, consentVars, discoveryVars, loopVars>>

GotoSearch ==
    /\ pc = "goto_search"
    /\ \/ /\ buttons' \in Pages
          /\ label' = 1
          /\ pc' = "consent_count"
          /\ NoRaise
       \/ /\ \E kind \in ExcKinds : Raise(kind)
          /\ UNCHANGED <<buttons, label>>
    /\ UNCHANGED <<extractorVars, max_places, browser, dismissed, clicked, discoveryVars, loopVars>>

(* ---------------------------------------------------------------------- *)
(* handle_consent_dialog                                                   *)
(* ---------------------------------------------------------------------- *)
(* `continue` in either for loop: the next accept label, after the last    *)
(* accept label the first reject label, after the last reject label        *)
(* "No consent dialog detected", return False.                             *)
(* return True / return False: the local loop variable ends with the call *)
ConsentReturn ==
    /\ label' = 1
    /\ pc' = "feed_wait"

ConsentContinue ==
    IF label < NumLabels
    THEN /\ label' = label + 1
         /\ pc' = "consent_count"
    ELSE ConsentReturn

(* ConsentCount with button.count() outside every try block. *)
ConsentCountUncaught ==
    /\ pc = "consent_count"
    /\ \/ /\ IF ~dismissed /\ ButtonCount(buttons, ConsentLabels[label]) > 0
             THEN /\ pc' = "consent_click"
                  /\ label' = label
             ELSE ConsentContinue
          /\ NoRaise
       \/ /\ \E kind \in ExcKinds : Raise(kind)
          /\ UNCHANGED label
    /\ UNCHANGED <<extractorVars, max_places, browser, buttons, dismissed, clicked, discoveryVars,
                   loopVars>>

(* button = page.get_by_role("button").filter(has_text=text); button.count() *)
ConsentCount ==
    /\ pc = "consent_count"
    /\ \/ IF ~dismissed /\ ButtonCount(buttons, ConsentLabels[label]) > 0
          THEN /\ pc' = "consent_click"
               /\ label' = label
          ELSE ConsentContinue
       \/ ConsentContinue                 \* count() raised: except ... continue
    /\ NoRaise
    /\ UNCHANGED <<extractorVars, max_places, browser, buttons, dismissed, clicked, discoveryVars,
                   loopVars>>

(* button.first.click(timeout=5000) *)
ConsentClick ==
    /\ pc = "consent_click"
    /\ \/ /\ clicked' = Append(clicked, ConsentLabels[label])
          /\ dismissed' \in BOOLEAN       \* the dialog goes away, or stays
          /\ pc' = "consent_wait"
          /\ label' = label
       \/ /\ ConsentContinue              \* click raised: except ... continue
          /\ UNCHANGED <<dismissed, clicked>>
    /\ NoRaise
    /\ UNCHANGED <<extractorVars, max_places, browser, buttons, discoveryVars, loopVars>>

(* page.wait_for_load_state('networkidle', timeout=8000); return True *)
ConsentWait ==
    /\ pc = "consent_wait"
    /\ \/ ConsentReturn
       \/ ConsentContinue                 \* the wait raised: except ... continue
    /\ NoRaise
    /\ UNCHANGED <<extractorVars, max_places, browser, buttons, dismissed, clicked, discoveryVars,
                   loopVars>>

(* ---------------------------------------------------------------------- *)
(* Link discovery                                                          *)
(* ---------------------------------------------------------------------- *)
(* place_links.update(current_links) on an empty accumulator is the same  *)
(* as replacing it; MergeReplace replaces it in every iteration.           *)
MergeReplace(acc, current_links) == current_links

(* place_links.update(current_links) *)
Merge(acc, current_links) == acc \cup current_links

(* The files one call of save_debug_artifacts writes when nothing fails:  *)
(* maps_debug_<timestamp>_<reason>.png and .html.                          *)
SnapshotFiles(reason) == {<<reason, "png">>, <<reason, "html">>}

(* What one call leaves on disk: the try block is left at the first        *)
(* statement that raises (page.screenshot, then page.content and           *)
(* write_text), so either nothing, the screenshot alone, or both files.    *)
SnapshotOutcomes(reason) ==
    {{}, {<<reason, "png">>}, SnapshotFiles(reason)}

(* save_debug_artifacts without its except clause: a failed write          *)
(* propagates to the caller.                                               *)
SnapshotUncaught(reason, next) ==
    /\ snapshots' = Append(snapshots, reason)
    /\ \E written \in SnapshotOutcomes(reason) :
         /\ artifacts' = artifacts \cup written
         /\ IF written = SnapshotFiles(reason)
            THEN pc' = next /\ NoRaise
            ELSE Raise("error")

(* await save_debug_artifacts(page, reason): its own failures are caught   *)
(* inside (except Exception), and the caller goes on with its next         *)
(* statement.                                                              *)
Snapshot(reason, next) ==
    /\ snapshots' = Append(snapshots, reason)
    /\ \E written \in SnapshotOutcomes(reason) :
         artifacts' = artifacts \cup written
    /\ pc' = next
    /\ NoRaise

(* page.wait_for_selector('[role="feed"]', state='visible', timeout=25000) *)
FeedWait ==
    /\ pc = "feed_wait"
    /\ \/ /\ feed_found' = TRUE
          /\ pc' = "select_strategy"
          /\ NoRaise
          /\ UNCHANGED <<place_links, strategy, snapshots, artifacts>>
       \/ \* PlaywrightTimeoutError: "/maps/place/" in page.url ?
          /\ feed_found' = FALSE
          /\ \/ \E current_url \in Links :
                   /\ place_links' = place_links \cup {current_url}
                   /\ strategy' = "SINGLE_PLACE"
                   /\ pc' = "select_strategy"
                   /\ NoRaise
                   /\ UNCHANGED <<snapshots, artifacts>>
             \/ /\ Snapshot("feed_not_found", "select_strategy")
                /\ UNCHANGED <<place_links, strategy>>
       \/ /\ Raise("error")               \* any other exception is not caught here
          /\ UNCHANGED <<feed_found, place_links, strategy, snapshots, artifacts>>
    /\ UNCHANGED <<extractorVars, max_places, browser, consentVars,
                   new_links_found, last_height, scroll_attempts_no_new,
                   globalVars, observed, session, loopVars>>

(* if feed_found and await page.locator(feed_selector).count() > 0: ...    *)
(* elif not feed_found and "/maps/place/" not in page.url: ...             *)
SelectStrategy ==
    /\ pc = "select_strategy"
    /\ IF feed_found
       THEN \/ \E h \in Heights :         \* count() > 0; last_height = scrollHeight
                 /\ last_height' = h
                 /\ strategy' = "FEED_SCROLL"
                 /\ pc' = "feed_scroll"
                 /\ NoRaise
                 /\ UNCHANGED place_links
            \/ /\ pc' = "zero_check"      \* count() = 0: neither branch is taken
               /\ NoRaise
               /\ UNCHANGED <<last_height, strategy, place_links>>
            \/ /\ \E kind \in ExcKinds : Raise(kind)
               /\ UNCHANGED <<last_height, strategy, place_links>>
       ELSE \/ /\ pc' = "global"          \* page.url is not a place URL
               /\ strategy' = "GLOBAL_FALLBACK"
               /\ NoRaise
               /\ UNCHANGED <<last_height, place_links>>
            \/ /\ pc' = "zero_check"      \* page.url is a place URL
               /\ NoRaise
               /\ UNCHANGED <<last_height, strategy, place_links>>
    /\ UNCHANGED <<extractorVars, max_places, browser, consentVars, feed_found,
                   new_links_found, scroll_attempts_no_new, globalVars,
                   observed, snapshots, artifacts, session, loopVars>>

(* MaxReached that needs the set to exceed the maximum. *)
MaxReachedBeyond(links, max) ==
    max # NoMax /\ Cardinality(links) > max

(* max_places is not None and len(place_links) >= max_places *)
MaxReached(links, max) ==
    max # NoMax /\ Cardinality(links) >= max

(* Trims that leaves the set as it is. *)
TrimsNone(links, max) == {links}

(* set(list(place_links)[:max_places]): max_places elements of the set in  *)
(* the set's iteration order, which is arbitrary; every such subset can    *)
(* be the outcome.                                                         *)
Trims(links, max) ==
    { trimmed \in SUBSET links : Cardinality(trimmed) = max }

(* Stalled only beyond the threshold. *)
StalledLate(attempts) ==
    attempts > MAX_SCROLL_ATTEMPTS_WITHOUT_NEW_LINKS

(* Stalled one attempt before the threshold. *)
StalledEarly(attempts) ==
    attempts >= MAX_SCROLL_ATTEMPTS_WITHOUT_NEW_LINKS - 1

(* scroll_attempts_no_new >= MAX_SCROLL_ATTEMPTS_WITHOUT_NEW_LINKS *)
Stalled(attempts) ==
    attempts >= MAX_SCROLL_ATTEMPTS_WITHOUT_NEW_LINKS

(* The loop of the running strategy is left by the break named reason. *)
Stops(reason) == session' = [session EXCEPT !.stop_reason = reason]

(* What the iteration that just read the scroll extent has seen, and how   *)
(* the loop went on: whether the extent changed, whether the end-of-list   *)
(* marker was found, the iterations since the extent last changed, whether *)
(* one of them merged a new link, and the iterations in a row with the     *)
(* extent unchanged and no new link.                                       *)
Observes(changed, end_marker, reason) ==
    session' = [stop_reason   |-> reason,
                changed       |-> changed,
                end_marker    |-> end_marker,
                unchanged_run |-> IF changed THEN 0
                                  ELSE IF session.unchanged_run < MaxRun
                                  THEN session.unchanged_run + 1
                                  ELSE MaxRun,
                new_in_run    |-> ~changed /\ (session.new_in_run \/ new_links_found),
                quiet_run     |-> IF changed \/ new_links_found THEN 0
                                  ELSE session.quiet_run + 1,
                iterations    |-> session.iterations]

(* Feed loop, first half of an iteration (scraper.py 358-371): scroll the  *)
(* feed to its bottom, collect the hrefs in the feed, merge, test the      *)
(* maximum and trim.                                                       *)
FeedScrollCollect ==
    /\ pc = "feed_scroll"
    /\ \/ \E current_links \in SUBSET Links :
            LET merged == Merge(place_links, current_links) IN
            /\ new_links_found' = (current_links \ place_links # {})
            /\ observed' = observed \cup current_links
            /\ IF MaxReached(merged, max_places)
               THEN /\ \E trimmed \in Trims(merged, max_places) :
                          place_links' = trimmed
                    /\ pc' = "zero_check"
                    /\ Stops("max")
               ELSE /\ place_links' = merged
                    /\ pc' = "feed_height"
                    /\ UNCHANGED session
            /\ NoRaise
       \/ /\ \E kind \in ExcKinds : Raise(kind)
          /\ UNCHANGED <<place_links, new_links_found, observed, session>>
    /\ UNCHANGED <<extractorVars, max_places, browser, consentVars, feed_found, strategy,
                   last_height, scroll_attempts_no_new, globalVars,
                   snapshots, artifacts, loopVars>>

(* Feed loop, second half of an iteration (scraper.py 374-394): read the   *)
(* scroll extent, look for the end-of-list marker, count the stalls.  The  *)
(* marker is looked for only when the extent is unchanged.                 *)
FeedCheckHeight ==
    /\ pc = "feed_height"
    /\ \/ \E new_height \in Heights, end_marker \in BOOLEAN :
            /\ NoRaise
            /\ IF new_height = last_height
               THEN /\ UNCHANGED last_height
                    /\ IF end_marker
                       THEN /\ pc' = "zero_check"
                            /\ UNCHANGED scroll_attempts_no_new
                            /\ Observes(FALSE, TRUE, "end_marker")
                       ELSE IF ~new_links_found
                       THEN /\ scroll_attempts_no_new' = scroll_attempts_no_new + 1
                            /\ IF Stalled(scroll_attempts_no_new + 1)
                               THEN /\ pc' = "zero_check"
                                    /\ Observes(FALSE, FALSE, "stalled")
                               ELSE /\ pc' = "feed_scroll"
                                    /\ Observes(FALSE, FALSE, "none")
                       ELSE /\ scroll_attempts_no_new' = 0
                            /\ pc' = "feed_scroll"
                            /\ Observes(FALSE, FALSE, "none")
               ELSE /\ last_height' = new_height
                    /\ scroll_attempts_no_new' = 0
                    /\ pc' = "feed_scroll"
                    /\ Observes(TRUE, FALSE, "none")
       \/ /\ \E kind \in ExcKinds : Raise(kind)
          /\ UNCHANGED <<last_height, scroll_attempts_no_new, session>>
    /\ UNCHANGED <<extractorVars, max_places, browser, consentVars, feed_found,
                   strategy, place_links, new_links_found, globalVars,
                   observed, snapshots, artifacts, loopVars>>

(* if max_places and len(place_links) >= max_places: a maximum of 0 is     *)
(* falsy and counts as no maximum.                                         *)
GlobalMaxReached(links, max) ==
    max # NoMax /\ max # 0 /\ Cardinality(links) >= max

(* GlobalReturn that hands back an empty set. *)
GlobalReturnNothing(result, reason) ==
    /\ place_links' = {}
    /\ global_place_links' = {}
    /\ global_scroll_attempts_no_new' = 0
    /\ scroll_iteration' = 0
    /\ session' = [session EXCEPT !.stop_reason = reason,
                                  !.iterations = scroll_iteration + 1]
    /\ pc' = "zero_check"

(* return place_links, from collect_place_links_global to the assignment  *)
(* place_links = await collect_place_links_global(page, max_places); the   *)
(* callee's locals end with the call.  reason names the way the for loop   *)
(* was left, and the iterations it started are counted.                    *)
GlobalReturn(result, reason) ==
    /\ place_links' = result
    /\ global_place_links' = {}
    /\ global_scroll_attempts_no_new' = 0
    /\ scroll_iteration' = 0
    /\ session' = [session EXCEPT !.stop_reason = reason,
                                  !.iterations = scroll_iteration + 1]
    /\ pc' = "zero_check"

(* One iteration of for scroll_iteration in range(20) in                   *)
(* collect_place_links_global (scraper.py 234-264), on a page whose hrefs  *)
(* are drawn from page_links: collect, merge, test the maximum (nothing    *)
(* is trimmed), count the stalls, scroll with the mouse wheel.  Any        *)
(* exception breaks the loop.                                              *)
GlobalIterateOn(page_links) ==
    /\ pc = "global"
    /\ \/ \E current_links \in SUBSET page_links :
            LET merged == Merge(global_place_links, current_links)
                found == (current_links \ global_place_links # {})
                stalled == IF found THEN 0 ELSE global_scroll_attempts_no_new + 1
            IN
            /\ observed' = observed \cup current_links
            /\ IF GlobalMaxReached(merged, max_places)
               THEN GlobalReturn(merged, "max")
               ELSE IF Stalled(stalled)
               THEN GlobalReturn(merged, "stalled")
               ELSE \/ IF scroll_iteration + 1 >= GLOBAL_MAX_ITERATIONS
                       THEN GlobalReturn(merged, "cap")  \* range(20) exhausted
                       ELSE /\ global_place_links' = merged
                            /\ global_scroll_attempts_no_new' = stalled
                            /\ scroll_iteration' = scroll_iteration + 1
                            /\ pc' = "global"
                            /\ UNCHANGED <<place_links, session>>
                    \/ GlobalReturn(merged, "error")     \* mouse.wheel raised
       \/ /\ GlobalReturn(global_place_links, "error")   \* evaluate_all raised
          /\ UNCHANGED observed
    /\ NoRaise
    /\ UNCHANGED <<extractorVars, max_places, browser, consentVars, feed_found, strategy,
                   new_links_found, last_height, scroll_attempts_no_new,
                   snapshots, artifacts, loopVars>>

(* collect_place_links_global on the page the search URL served. *)
GlobalIterate == GlobalIterateOn(Links)

(* ZeroCheck that takes the snapshot whatever the set holds. *)
ZeroCheckAlways ==
    /\ pc = "zero_check"
    /\ Snapshot("zero_results", "links")
    /\ todo' = place_links
    /\ session' = SessionStart
    /\ new_links_found' = FALSE
    /\ last_height' = 0
    /\ scroll_attempts_no_new' = 0
    /\ UNCHANGED <<extractorVars, max_places, browser, consentVars, feed_found, strategy,
                   place_links, globalVars, observed, link,
                   processed, json_none, dom_tried, results>>

(* if len(place_links) == 0: save_debug_artifacts(page, "zero_results")    *)
(* then the per-link loop starts over the final set; the discovery run     *)
(* and what it observed are over.  new_links_found, last_height and        *)
(* scroll_attempts_no_new are read by the feed loop only (lines 353-394):  *)
(* their values are dead from here on and the model forgets them.          *)
ZeroCheck ==
    /\ pc = "zero_check"
    /\ IF place_links = {}
       THEN Snapshot("zero_results", "links")
       ELSE /\ pc' = "links"
            /\ NoRaise
            /\ UNCHANGED <<snapshots, artifacts>>
    /\ todo' = place_links
    /\ session' = SessionStart
    /\ new_links_found' = FALSE
    /\ last_height' = 0
    /\ scroll_attempts_no_new' = 0
    /\ UNCHANGED <<extractorVars, max_places, browser, consentVars, feed_found, strategy,
                   place_links, globalVars, observed, link,
                   processed, json_none, dom_tried, results>>

(* ---------------------------------------------------------------------- *)
(* Per-link extraction loop                                                *)
(* ---------------------------------------------------------------------- *)
(* LinkGoto with page.goto outside the loop's try block. *)
LinkGotoUncaught ==
    /\ pc = "links"
    /\ \E l \in todo :
         /\ todo' = todo \ {l}
         /\ link' = l
         /\ processed' = Append(processed, l)
    /\ \/ /\ pc' = "link_extract"
          /\ NoRaise
       \/ \E kind \in ExcKinds : Raise(kind)
    /\ UNCHANGED <<extractorVars, max_places, browser, consentVars, discoveryVars, json_none,
                   dom_tried, results>>

(* for link in place_links: page.goto(link, ...).  A set is iterated in    *)
(* an arbitrary order.  A failure is caught in the loop body.              *)
LinkGoto ==
    /\ pc = "links"
    /\ \E l \in todo :
         /\ todo' = todo \ {l}
         /\ link' = l
         /\ processed' = Append(processed, l)
    /\ \/ pc' = "link_extract"
       \/ pc' = "links"                   \* goto raised: logged, next link
    /\ NoRaise
    /\ UNCHANGED <<extractorVars, max_places, browser, consentVars, discoveryVars, json_none,
                   dom_tried, results>>

(* html_content = page.content(); place_data = extract_place_data(html);   *)
(* if place_data: place_data['link'] = link; results.append(place_data)    *)
LinkExtract ==
    /\ pc = "link_extract"
    /\ \/ \E outcome \in HtmlOutcomes :
            LET place_data == outcome.value IN
            IF outcome.raised
            THEN UNCHANGED <<results, json_none>>    \* logged, next link
            ELSE IF place_data # None
            THEN /\ results' = Append(results,
                                      WithLink(CHOOSE r \in place_data : TRUE, link))
                 /\ UNCHANGED json_none
            ELSE /\ json_none' = json_none \cup {link}   \* "Failed to extract data"
                 /\ UNCHANGED results
       \/ UNCHANGED <<results, json_none>> \* content() raised: logged, next link
    /\ pc' = "links"
    /\ NoRaise
    /\ UNCHANGED <<extractorVars, max_places, browser, consentVars, discoveryVars, todo, link,
                   processed, dom_tried>>

(* ---------------------------------------------------------------------- *)
(* Exit paths                                                              *)
(* ---------------------------------------------------------------------- *)
(* await browser.close() after the loop (scraper.py 437) *)
CloseBrowser ==
    /\ pc = "links"
    /\ todo = {}
    /\ browser' = "closed"
    /\ pc' = "finally"
    /\ NoRaise
    /\ UNCHANGED <<extractorVars, max_places, consentVars, discoveryVars, loopVars>>

(* Except with the second clause (except Exception) missing. *)
ExceptTimeoutOnly ==
    /\ pc = "except"
    /\ exc \in {"timeout", "error"}
    /\ caught' = IF exc = "timeout" THEN exc ELSE caught
    /\ exc' = IF exc = "timeout" THEN "none" ELSE exc
    /\ pc' = "finally"
    /\ UNCHANGED <<extractorVars, max_places, browser, abortedAt, consentVars, discoveryVars,
                   loopVars>>

(* except PlaywrightTimeoutError: ... except Exception as e: ... *)
Except ==
    /\ pc = "except"
    /\ exc \in {"timeout", "error"}
    /\ caught' = exc
    /\ exc' = "none"
    /\ pc' = "finally"
    /\ UNCHANGED <<extractorVars, max_places, browser, abortedAt, consentVars, discoveryVars,
                   loopVars>>

(* Finally without the close of a still connected browser. *)
FinallyNoClose ==
    /\ pc = "finally"
    /\ pc' = IF exc = "none" THEN "returned" ELSE "raised"
    /\ UNCHANGED <<extractorVars, max_places, browser, exc, caught, abortedAt, consentVars,
                   discoveryVars, loopVars>>

(* finally: if browser and browser.is_connected(): await browser.close()   *)
(* then `return results`, unless an exception is still in flight.          *)
Finally ==
    /\ pc = "finally"
    /\ browser' = IF browser = "open" THEN "closed" ELSE browser
    /\ pc' = IF exc = "none" THEN "returned" ELSE "raised"
    /\ UNCHANGED <<extractorVars, max_places, exc, caught, abortedAt, consentVars,
                   discoveryVars, loopVars>>

Next ==
    \/ Launch
    \/ NewContext
    \/ NewPage
    \/ GotoSearch
    \/ ConsentCount
    \/ ConsentClick
    \/ ConsentWait
    \/ FeedWait
    \/ SelectStrategy
    \/ FeedScrollCollect
    \/ FeedCheckHeight
    \/ GlobalIterate
    \/ ZeroCheck
    \/ LinkGoto
    \/ LinkExtract
    \/ CloseBrowser
    \/ Except
    \/ Finally

Spec == Init /\ [][Next]_vars

(* Every awaited operation carries a timeout or completes, so the single   *)
(* control flow always takes its next step.                                *)
FairSpec == Spec /\ WF_vars(Next)

(* ---------------------------------------------------------------------- *)
(* Properties                                                              *)
(* ---------------------------------------------------------------------- *)
PlaceRecordKeys == {"name", "place_id", "coordinates", "address", "rating",
                    "reviews_count", "categories", "website", "phone",
                    "thumbnail", "link"}

IsPlaceRecordList(list) ==
    \A i \in 1..Len(list) : DOMAIN list[i] \subseteq PlaceRecordKeys

PreDiscoveryPcs == {"launch", "new_context", "new_page", "goto_search"}
ConsentPcs == {"consent_count", "consent_click", "consent_wait"}
DiscoveryPcs == {"feed_wait", "select_strategy", "feed_scroll", "feed_height",
                 "global"}
LoopPcs == {"links", "link_extract"}

(* C1: scrape_google_maps never raises to its caller: whatever fails       *)
(* (launch, page creation, navigation, consent, discovery, per-link        *)
(* extraction), no exception leaves the function, and when it returns it   *)
(* returns a list, possibly empty, of place records.                       *)
C1_NeverRaises ==
    /\ pc # "raised"
    /\ pc = "returned" => exc = "none" /\ IsPlaceRecordList(results)

(* a run that failed with a non-timeout exception during discovery and     *)
(* still returned a list *)
C1_Witness ==
    /\ pc = "returned"
    /\ caught = "error"
    /\ abortedAt \in DiscoveryPcs
    /\ results = <<>>

(* C2: whenever the browser was launched, it is closed by the time the     *)
(* function is left, on every exit path; it is never left open.            *)
C2_BrowserReleased ==
    pc \in {"returned", "raised"} =>
        IF abortedAt = "launch" THEN browser = "none" ELSE browser = "closed"

(* a run that timed out in the feed loop and returned with the browser     *)
(* closed *)
C2_Witness ==
    /\ pc = "returned"
    /\ caught = "timeout"
    /\ abortedAt = "feed_height"
    /\ browser = "closed"

Range(seq) == {seq[i] : i \in 1..Len(seq)}

(* position of a link in the processing order *)
Pos(l) == CHOOSE k \in 1..Len(processed) : processed[k] = l

(* C3: for every discovered link the JSON pipeline runs first and,         *)
(* whenever it yields no record, the DOM fallback extractor is run on the  *)
(* same page; a link is given up only after both paths yielded no record.  *)
C3_DomFallbackAfterJson ==
    pc = "links" => json_none \subseteq dom_tried

(* C4: when a maximum was supplied, the link set handed to the per-link    *)
(* loop has at most max_places links, whichever strategy produced it, and  *)
(* so the returned list has at most max_places records.                    *)
C4_AtMostMaxPlaces ==
    /\ (max_places # NoMax /\ pc \in LoopPcs) =>
            Cardinality(place_links) <= max_places
    /\ (max_places # NoMax /\ pc = "returned") => Len(results) <= max_places

(* C5: a failure while processing one link does not abort the run: the     *)
(* loop goes on to the next link, every discovered link is navigated to    *)
(* exactly once and one at a time, and records already appended are kept.  *)
C5_LoopState ==
    /\ abortedAt \notin LoopPcs
    /\ \A i, j \in 1..Len(processed) : i # j => processed[i] # processed[j]
    /\ pc \in LoopPcs =>
          /\ Range(processed) \cup todo = place_links
          /\ Range(processed) \cap todo = {}
    /\ pc = "link_extract" =>
          /\ Len(processed) > 0
          /\ processed[Len(processed)] = link
    /\ (pc \in {"finally", "returned"} /\ abortedAt = "none") =>
          /\ Range(processed) = place_links
          /\ Len(processed) = Cardinality(place_links)

C5_LinkFailureIsLocal ==
    /\ []C5_LoopState
    /\ [][/\ Len(results') >= Len(results)
          /\ SubSeq(results', 1, Len(results)) = results]_vars

(* the first link failed, the loop went on and the second link yielded a   *)
(* record *)
C5_Witness ==
    /\ pc = "returned"
    /\ Len(processed) = 2
    /\ Len(results) = 1
    /\ results[1].link = processed[2]

(* C6: the returned list is in processing order, every record carries a    *)
(* 'link' field equal to the URL it was extracted from, and a link whose   *)
(* extraction yielded no record contributes nothing to the list.           *)
C6_ListState ==
    /\ \A i \in 1..Len(results) :
          /\ "link" \in DOMAIN results[i]
          /\ results[i].link \in Range(processed)
          /\ results[i].link \notin json_none
    /\ \A i, j \in 1..Len(results) :
          i < j => Pos(results[i].link) < Pos(results[j].link)
    /\ Len(results) + Cardinality(json_none) <= Len(processed)

C6_OrderedLinkedRecords ==
    /\ []C6_ListState
    /\ [][results' # results =>
             /\ pc = "link_extract"
             /\ Len(results') = Len(results) + 1
             /\ SubSeq(results', 1, Len(results)) = results
             /\ results'[Len(results')].link = link]_vars

(* a returned list of two records, link 2 processed before link 1 *)
C6_Witness ==
    /\ pc = "returned"
    /\ processed = <<2, 1>>
    /\ Len(results) = 2
    /\ results[1].link = 2
    /\ results[2].link = 1

(* C7: link discovery always terminates: once the feed wait starts, the    *)
(* run leaves discovery after finitely many iterations, under every        *)
(* layout and for every behaviour of the page.                             *)
C7_DiscoveryTerminates ==
    (pc = "feed_wait") ~> (pc \notin DiscoveryPcs)

(* C8: a timeout or error during link discovery is a local failure: the    *)
(* run is not aborted and the links accumulated so far are still           *)
(* processed by the per-link loop; only session acquisition and the        *)
(* top-level navigation are fatal.                                         *)
C8_DiscoveryFailureIsLocal ==
    pc = "returned" =>
        /\ Range(processed) = place_links
        /\ place_links # {} => abortedAt \notin DiscoveryPcs

(* C9: consent dismissal stops at the first button it clicks: at most one  *)
(* button is clicked per run, no label is tried after a click, and a       *)
(* reject button is clicked only if no accept label matched.               *)
C9_SingleConsentClick ==
    /\ Len(clicked) <= 1
    /\ pc \in {"consent_count", "consent_click"} => clicked = <<>>
    /\ (pc = "consent_click" /\ label > NumAccept) =>
            MatchingLabels(buttons) \cap (1..NumAccept) = {}

(* C10: if no button matches any accept or reject label, consent           *)
(* dismissal clicks nothing, and no failure inside consent handling ever   *)
(* aborts the run: the pipeline goes on to link discovery.                 *)
C10_NoDialogNoError ==
    /\ MatchingLabels(buttons) = {} => clicked = <<>>
    /\ abortedAt \notin ConsentPcs

(* a page with a button that matches no label: all eight labels were       *)
(* tried, nothing was clicked, and the run is at the feed wait *)
C10_Witness ==
    /\ pc = "feed_wait"
    /\ buttons = {"Sign in"}
    /\ clicked = <<>>
    /\ abortedAt = "none"

(* The set a scrolling strategy is accumulating: the callee's local set    *)
(* while collect_place_links_global runs, place_links otherwise.           *)
Accumulated == IF pc = "global" THEN global_place_links ELSE place_links

(* C19: while FEED_SCROLL or GLOBAL_FALLBACK accumulates links and the     *)
(* maximum is not hit (there is none, or fewer distinct hrefs were seen    *)
(* than max_places), the accumulated set is exactly the set of distinct    *)
(* hrefs the scroll iterations observed, however often they were seen      *)
(* again, so its size is the number of distinct URLs observed.             *)
C19_LinkSetDeduplicated ==
    (/\ strategy \in {"FEED_SCROLL", "GLOBAL_FALLBACK"}
     /\ max_places = NoMax \/ Cardinality(observed) < max_places)
    => /\ Accumulated = observed
       /\ Cardinality(Accumulated) = Cardinality(observed)

(* A feed iteration has just collected hrefs that were all known already,  *)
(* with every link of the page accumulated and no maximum set.             *)
C19_Witness ==
    /\ pc = "feed_height"
    /\ strategy = "FEED_SCROLL"
    /\ max_places = NoMax
    /\ ~new_links_found
    /\ place_links = Links
    /\ observed = Links

(* C20: once link discovery is over, a feed that became visible has led    *)
(* to FEED_SCROLL; a feed wait that timed out without a 'feed_not_found'   *)
(* snapshot (place URL) has led to SINGLE_PLACE with exactly one           *)
(* discovered link and no scroll iteration; a feed wait that timed out     *)
(* with the snapshot has led to GLOBAL_FALLBACK with exactly one such      *)
(* snapshot.                                                               *)
C20_FeedWaitTransitions ==
    pc = "zero_check" =>
        LET feed_not_found ==
                { i \in DOMAIN snapshots : snapshots[i] = "feed_not_found" }
        IN
        /\ feed_found => strategy = "FEED_SCROLL"
        /\ (~feed_found /\ feed_not_found = {}) =>
               /\ strategy = "SINGLE_PLACE"
               /\ Cardinality(place_links) = 1
               /\ observed = {}
        /\ (~feed_found /\ feed_not_found # {}) =>
               /\ strategy = "GLOBAL_FALLBACK"
               /\ Cardinality(feed_not_found) = 1

(* ---------------------------------------------------------------------- *)
(* The extractors run on their own, on any page                            *)
(* ---------------------------------------------------------------------- *)
(* extract_place_data is called with the markup of some page. *)
InitJson ==
    /\ pc = "extractor"
    /\ max_places = NoMax
    /\ NotStarted
    /\ html_content \in JsonHtmls
    /\ json_pc = "fields"
    /\ json_result = None
    /\ DomIdle
    /\ call = NoCall

(* The call of extract_place_data runs to its return or to the exception   *)
(* that leaves it.                                                         *)
JsonExtract ==
    /\ json_pc = "fields"
    /\ json_result' = extract_place_data(html_content)
    /\ json_pc' = "done"
    /\ UNCHANGED <<html_content, dom_pc, dom_page, place_details, dom_result,
                   call, max_places, pc, browser, exc, caught, abortedAt,
                   consentVars, discoveryVars, loopVars>>

orchestratorVars == <<max_places, pc, browser, exc, caught, abortedAt,
                      consentVars, discoveryVars, loopVars, call>>
jsonVars == <<html_content, json_pc, json_result>>

(* ---------------------------------------------------------------------- *)
(* extract_place_data_dom(page, url).  Texts are sequences of characters;  *)
(* an href is a sequence of pieces so that 'x' in href is membership.      *)
(* ---------------------------------------------------------------------- *)
MaxElems == 2

(* text.strip() *)
RECURSIVE lstrip(_)
lstrip(text) ==
    IF text # <<>> /\ Head(text) = " " THEN lstrip(Tail(text)) ELSE text

RECURSIVE rstrip(_)
rstrip(text) ==
    IF text # <<>> /\ text[Len(text)] = " "
    THEN rstrip(SubSeq(text, 1, Len(text) - 1))
    ELSE text

strip(text) == rstrip(lstrip(text))

(* The first of the accepted elements, as an optional value: the for      *)
(* loops that break at the first acceptable element.                       *)
First(accepted) == IF accepted = <<>> THEN None ELSE Some(accepted[1])

(* The name test accepting any non-blank heading text. *)
NameOkAnyLength(text) == text # <<>> /\ strip(text) # <<>>

(* if text and text.strip() and len(text.strip()) > 2 *)
NameOk(text) == text # <<>> /\ strip(text) # <<>> /\ Len(strip(text)) > 2

(* if 0 <= rating <= 5, ratings counted in tenths *)
RatingOk(rating) == 0 <= rating /\ rating <= 50

(* if reviews_count > 0 and reviews_count < 10000000 *)
ReviewsOk(reviews_count) == reviews_count > 0 /\ reviews_count < 10000000

(* if text and len(text.strip()) > 5 *)
AddressOk(text) == text # <<>> /\ Len(strip(text)) > 5

Contains(href, piece) == \E i \in DOMAIN href : href[i] = piece

(* if href and 'http' in href and 'google.com' not in href                 *)
(*    and '/maps' not in href                                              *)
WebsiteOk(href) ==
    /\ href # <<>>
    /\ Contains(href, "http")
    /\ ~Contains(href, "google.com")
    /\ ~Contains(href, "/maps")

(* re.sub(r'[^\d+]', '', text) *)
RECURSIVE DigitsAndPlus(_)
DigitsAndPlus(text) ==
    IF text = <<>> THEN <<>>
    ELSE IF Head(text) \in Digits \cup {"+"}
    THEN <<Head(text)>> \o DigitsAndPlus(Tail(text))
    ELSE DigitsAndPlus(Tail(text))

(* if text: ... if phone_clean and len(phone_clean) >= 7 *)
PhoneOk(text) ==
    text # <<>> /\ DigitsAndPlus(text) # <<>> /\ Len(DigitsAndPlus(text)) >= 7

(* What the located elements can show. *)
NameTexts == { <<>>, <<" ", "A", "b", " ">>, <<" ", "B", "a", "r", " ">> }

RatingMatches == { <<>>, <<45>>, <<70>>, <<70, 45>> }

ReviewsMatches == { <<>>, <<1234>>, <<0>>, <<20000000, 1234>> }

AddressTexts ==
    { <<>>, <<"M", "a", "i", "n">>,
      <<" ", "M", "a", "i", "n", " ", "S", "t", " ">> }

Hrefs ==
    { <<>>,
      <<"http", "s://cafe.example/">>,
      <<"http", "s://www.", "google.com", "/maps", "/place">>,
      <<"http", "s://fonts.", "gstatic.com", "/s">> }

PhoneTexts ==
    { <<>>,
      <<"C", "a", "l", "l">>,
      <<"1", "1", "2">>,
      <<"5", "5", "5", "-", "0", "1", "0">>,
      <<"5", "5", "5", "-", "0", "1", "0", "0">>,
      <<"+", "1", " ", "5", "5", "5", "-", "0", "1", "0", "0">>,
      <<"5", "5", "5", "+", "0", "1", "0", "0">> }

(* locator(...).all() followed by one read per element *)
Elems(Texts) == BoundedSeq(Texts, MaxElems)

(* extract_place_data_dom is called on a page that has been navigated to   *)
(* the place link url.                                                     *)
InitDom ==
    /\ pc = "extractor"
    /\ max_places = NoMax
    /\ NotStarted
    /\ JsonIdle
    /\ dom_pc = "wait_h1"
    /\ \E url \in Links :
          dom_page = [url |-> url, anchor |-> "untried", name_tried |-> FALSE,
                      h1_texts |-> <<>>, heading_texts |-> <<>>]
    /\ place_details = <<>>
    /\ dom_result = None
    /\ call = NoCall

(* return None, from anywhere in the function *)
DomReturnNone ==
    /\ dom_result' = None
    /\ dom_pc' = "done"
    /\ UNCHANGED place_details

(* await page.wait_for_selector('h1', state='visible', timeout=10000) *)
DomWaitH1 ==
    /\ dom_pc = "wait_h1"
    /\ \/ /\ dom_page' = [dom_page EXCEPT !.anchor = "h1"]
          /\ dom_pc' = "network_idle"
       \/ /\ dom_pc' = "wait_heading"          \* any exception: try the fallback
          /\ UNCHANGED dom_page
    /\ UNCHANGED <<place_details, dom_result, jsonVars, orchestratorVars>>

(* wait_for_selector('[role="heading"][aria-level="1"]', timeout=5000);    *)
(* on any exception return None.                                           *)
DomWaitHeading ==
    /\ dom_pc = "wait_heading"
    /\ \/ /\ dom_page' = [dom_page EXCEPT !.anchor = "heading"]
          /\ dom_pc' = "network_idle"
          /\ UNCHANGED <<place_details, dom_result>>
       \/ /\ dom_page' = [dom_page EXCEPT !.anchor = "none"]
          /\ DomReturnNone
    /\ UNCHANGED <<jsonVars, orchestratorVars>>

(* await page.wait_for_load_state('networkidle', timeout=5000): a timeout  *)
(* is raised outside every inner try and reaches the function's except     *)
(* clause, which returns None.                                             *)
DomNetworkIdle ==
    /\ dom_pc = "network_idle"
    /\ \/ /\ dom_pc' = "name"
          /\ UNCHANGED <<place_details, dom_result>>
       \/ DomReturnNone
    /\ UNCHANGED <<dom_page, jsonVars, orchestratorVars>>

(* place_details['name'] = name with the url stored under 'link'. *)
NameFieldsLink(name, url) == [name |-> name, link |-> url]

(* place_details['name'] = name; place_details['maps_url'] = url *)
NameFields(name, url) == [name |-> name, maps_url |-> url]

(* place_details[key] = value when a value was found *)
WithField(details, key, found) ==
    IF found = None THEN details
    ELSE [k \in (DOMAIN details) \cup {key} |->
             IF k = key THEN CHOOSE x \in found : TRUE ELSE details[k]]

(* The end of STEP 2, with the heading texts that were read. *)
DomNamed(h1_texts, heading_texts, found) ==
    /\ dom_page' = [dom_page EXCEPT !.name_tried = TRUE,
                                    !.h1_texts = h1_texts,
                                    !.heading_texts = heading_texts]
    /\ IF found = None
       THEN DomReturnNone                      \* if not name: return None
       ELSE /\ place_details' =
                   NameFields(strip(CHOOSE text \in found : TRUE), dom_page.url)
            /\ dom_pc' = "rating"
            /\ UNCHANGED dom_result

(* STEP 2: the first acceptable h1 text; failing that the first acceptable *)
(* heading-role text; an exception on the way leaves name unset.           *)
DomName ==
    /\ dom_pc = "name"
    /\ \E h1_texts \in Elems(NameTexts) :
          LET from_h1 == First(SelectSeq(h1_texts, NameOk)) IN
          IF from_h1 # None
          THEN DomNamed(h1_texts, <<>>, from_h1)
          ELSE \/ \E heading_texts \in Elems(NameTexts) :
                     DomNamed(h1_texts, heading_texts,
                              First(SelectSeq(heading_texts, NameOk)))
               \/ DomNamed(h1_texts, <<>>, None)      \* a read raised
    /\ UNCHANGED <<jsonVars, orchestratorVars>>

(* STEP 3: the first rating and the first review count in range among the  *)
(* matches of the patterns on page.content(); an exception skips the step.  *)
DomRatingReviews ==
    /\ dom_pc = "rating"
    /\ \/ \E ratings \in RatingMatches, reviews \in ReviewsMatches :
             place_details' =
                 WithField(WithField(place_details, "rating",
                                     First(SelectSeq(ratings, RatingOk))),
                           "reviews_count", First(SelectSeq(reviews, ReviewsOk)))
       \/ \E ratings \in RatingMatches :       \* failure after the rating
             place_details' = WithField(place_details, "rating",
                                        First(SelectSeq(ratings, RatingOk)))
       \/ UNCHANGED place_details              \* page.content() raised
    /\ dom_pc' = "address"
    /\ UNCHANGED <<dom_page, dom_result, jsonVars, orchestratorVars>>

(* The address STEP 4 finds: the first element text longer than 5          *)
(* characters, stripped, over the address selectors in order.              *)
AddressFound(texts) ==
    LET found == First(SelectSeq(texts, AddressOk)) IN
    IF found = None THEN None ELSE Some(strip(CHOOSE text \in found : TRUE))

AddressOutcomes == { AddressFound(texts) : texts \in Elems(AddressTexts) }

(* STEP 4; an exception skips the step. *)
DomAddress ==
    /\ dom_pc = "address"
    /\ \/ \E found \in AddressOutcomes :
             place_details' = WithField(place_details, "address", found)
       \/ UNCHANGED place_details
    /\ dom_pc' = "website"
    /\ UNCHANGED <<dom_page, dom_result, jsonVars, orchestratorVars>>

(* The website STEP 5 finds: the first acceptable href over the website    *)
(* selectors; failing that the first acceptable visible link outside       *)
(* gstatic.com among a[href^="http"], unless reading those raises.         *)
WebsiteFound(hrefs, all_links, is_visible, fails) ==
    LET found == First(SelectSeq(hrefs, WebsiteOk))
        Fallback(href) == /\ WebsiteOk(href)
                          /\ ~Contains(href, "gstatic.com")
                          /\ is_visible
    IN  IF found # None THEN found
        ELSE IF fails THEN None
        ELSE First(SelectSeq(all_links, Fallback))

WebsiteOutcomes ==
    { WebsiteFound(hrefs, all_links, is_visible, fails) :
        hrefs \in Elems(Hrefs), all_links \in Elems(Hrefs),
        is_visible \in BOOLEAN, fails \in BOOLEAN }

(* STEP 5; an exception skips what is left of the step. *)
DomWebsite ==
    /\ dom_pc = "website"
    /\ \/ \E found \in WebsiteOutcomes :
             place_details' = WithField(place_details, "website", found)
       \/ UNCHANGED place_details
    /\ dom_pc' = "phone"
    /\ UNCHANGED <<dom_page, dom_result, jsonVars, orchestratorVars>>

(* The phone STEP 6 finds: the digits and '+' characters of the first      *)
(* element text that has at least 7 of them, over the phone selectors in   *)
(* order.                                                                  *)
PhoneFound(texts) ==
    LET found == First(SelectSeq(texts, PhoneOk)) IN
    IF found = None THEN None
    ELSE Some(DigitsAndPlus(CHOOSE text \in found : TRUE))

PhoneOutcomes == { PhoneFound(texts) : texts \in Elems(PhoneTexts) }

(* STEP 6, where an exception skips the step, and return place_details. *)
DomPhone ==
    /\ dom_pc = "phone"
    /\ \/ \E found \in PhoneOutcomes :
             place_details' = WithField(place_details, "phone", found)
       \/ UNCHANGED place_details
    /\ dom_result' = Some(place_details')
    /\ dom_pc' = "done"
    /\ UNCHANGED <<dom_page, jsonVars, orchestratorVars>>

(* ---------------------------------------------------------------------- *)
(* Specifications of the extractors, and of everything together            *)
(* ---------------------------------------------------------------------- *)
InitExtract == InitJson \/ InitDom

NextExtract ==
    \/ JsonExtract
    \/ DomWaitH1
    \/ DomWaitHeading
    \/ DomNetworkIdle
    \/ DomName
    \/ DomRatingReviews
    \/ DomAddress
    \/ DomWebsite
    \/ DomPhone

SpecExtract == InitExtract /\ [][NextExtract]_vars

InitAll == Init \/ InitExtract

NextAll == Next \/ NextExtract

SpecAll == InitAll /\ [][NextAll]_vars

(* ---------------------------------------------------------------------- *)
(* Properties of the extractors                                            *)
(* ---------------------------------------------------------------------- *)
(* extract_place_data has ended on a page with a non-empty payload blob. *)
PayloadExtracted ==
    /\ json_pc = "done"
    /\ html_content.located
    /\ html_content.parsed
    /\ Truthy(html_content.blob)

(* The fields whose getter yields a value on the blob of the page. *)
Resolving ==
    LET fields == AllFields(html_content.blob) IN
    { k \in DOMAIN fields : fields[k].t \notin {"null", "exc"} }

(* The record extract_place_data returned, when it returned one. *)
JsonRecord == CHOOSE place_data \in json_result.value : TRUE
JsonReturnedRecord ==
    json_pc = "done" /\ ~json_result.raised /\ json_result.value # None

(* The record extract_place_data_dom returned, when it returned one. *)
DomRecord == CHOOSE record \in dom_result : TRUE
DomReturnedRecord == dom_pc = "done" /\ dom_result # None

(* C11: on every payload blob the field extraction raises nothing, and     *)
(* the record holds every field that resolves and none that does not.      *)
C11_FieldErrorsAbsorbed ==
    PayloadExtracted =>
        /\ ~json_result.raised
        /\ \A k \in Resolving :
              json_result.value # None /\ k \in DOMAIN JsonRecord
        /\ json_result.value # None => DOMAIN JsonRecord \subseteq Resolving

(* The keys extract_place_data_dom can put into its record. *)
DomRecordKeys ==
    {"name", "maps_url", "rating", "reviews_count", "address", "website",
     "phone"}

(* C12 as stated: every record of the JSON path, of the DOM path and of    *)
(* the result list has its keys in the eleven keys of a place record.      *)
C12_KeysAsStated ==
    /\ JsonReturnedRecord => DOMAIN JsonRecord \subseteq PlaceRecordKeys
    /\ DomReturnedRecord => DOMAIN DomRecord \subseteq PlaceRecordKeys
    /\ \A i \in DOMAIN results : DOMAIN results[i] \subseteq PlaceRecordKeys

(* C12: a record of the JSON path has its keys among the ten field keys,   *)
(* and among the eleven keys of a place record once the link is attached;  *)
(* every record of the result list has its keys among those eleven; a      *)
(* record of the DOM path has name and maps_url and otherwise only         *)
(* rating, reviews_count, address, website and phone.                      *)
C12_RecordKeys ==
    /\ JsonReturnedRecord =>
          /\ DOMAIN JsonRecord \subseteq PlaceRecordKeys \ {"link"}
          /\ \A l \in Links :
                DOMAIN WithLink(JsonRecord, l) \subseteq PlaceRecordKeys
    /\ DomReturnedRecord =>
          /\ {"name", "maps_url"} \subseteq DOMAIN DomRecord
          /\ DOMAIN DomRecord \subseteq DomRecordKeys
    /\ \A i \in DOMAIN results : DOMAIN results[i] \subseteq PlaceRecordKeys

(* The DOM extractor has returned a record that carries every key it can. *)
C12_Witness ==
    DomReturnedRecord /\ DOMAIN DomRecord = DomRecordKeys

(* C13: extract_place_data returns no record when locating or parsing      *)
(* failed or no field resolves, and otherwise a record with exactly the    *)
(* resolving fields.                                                       *)
C13_ExactlyResolvedFields ==
    json_pc = "done" =>
        IF ~PayloadExtracted \/ Resolving = {}
        THEN json_result.value = None
        ELSE /\ json_result.value # None
             /\ DOMAIN JsonRecord = Resolving

(* C14: the returned record has coordinates exactly when offsets [9][2]    *)
(* and [9][3] both hold a value, and then they are its latitude and        *)
(* longitude.                                                              *)
C14_CoordinatesBothOrNone ==
    (PayloadExtracted /\ ~json_result.raised) =>
        LET gps == html_content.blob.v[10]
            HasLat == gps.t = "arr" /\ Len(gps.v) > 2 /\ gps.v[3].t # "null"
            HasLon == gps.t = "arr" /\ Len(gps.v) > 3 /\ gps.v[4].t # "null"
            present == /\ json_result.value # None
                       /\ "coordinates" \in DOMAIN JsonRecord
        IN  /\ present <=> (HasLat /\ HasLon)
            /\ present =>
                  JsonRecord.coordinates.v =
                      << <<"latitude", gps.v[3]>>, <<"longitude", gps.v[4]>> >>

(* A record with coordinates (0, 0) has been returned. *)
C14_Witness ==
    /\ JsonReturnedRecord
    /\ "coordinates" \in DOMAIN JsonRecord
    /\ JsonRecord.coordinates.v =
           << <<"latitude", Num(0)>>, <<"longitude", Num(0)>> >>

(* The parts of an address list that are non-empty strings, in order. *)
NonEmptyParts(parts) ==
    LET NonEmpty(part) == part.t = "str" /\ part.v # <<>> IN
    SelectSeq(parts, NonEmpty)

(* C15: an address in the returned record is a non-empty string, the       *)
(* non-empty parts of the list at offset 2 joined in order by ", "; there  *)
(* is no address when offset 2 is not a list or has no non-empty part.     *)
C15_AddressJoined ==
    (PayloadExtracted /\ ~json_result.raised) =>
        LET address_parts == html_content.blob.v[3]
            present == /\ json_result.value # None
                       /\ "address" \in DOMAIN JsonRecord
        IN  /\ present =>
                  /\ JsonRecord.address.t = "str"
                  /\ JsonRecord.address.v # <<>>
                  /\ address_parts.t = "arr"
                  /\ JsonRecord.address.v =
                         Join(<<", ">>, NonEmptyParts(address_parts.v))
            /\ (address_parts.t # "arr"
                    \/ NonEmptyParts(address_parts.v) = <<>>) => ~present

(* Three parts, the middle one empty, have been joined into an address. *)
C15_Witness ==
    /\ JsonReturnedRecord
    /\ html_content.blob.v[3] =
           Arr(<<Str(<<"Main St 1">>), Str(<<>>), Str(<<"Berlin">>)>>)
    /\ "address" \in DOMAIN JsonRecord
    /\ JsonRecord.address = Str(<<"Main St 1", ", ", "Berlin">>)

(* C16 as stated: a phone of the JSON path has only digits, a phone of     *)
(* the DOM path only digits after an optional leading '+', and both are    *)
(* at least 7 characters long.                                             *)
C16_PhoneAsStated ==
    /\ (JsonReturnedRecord /\ "phone" \in DOMAIN JsonRecord) =>
          LET phone == JsonRecord.phone.v IN
          /\ \A i \in DOMAIN phone : phone[i] \in Digits
          /\ Len(phone) >= 7
    /\ (DomReturnedRecord /\ "phone" \in DOMAIN DomRecord) =>
          LET phone == DomRecord.phone IN
          /\ phone[1] \in Digits \cup {"+"}
          /\ \A i \in DOMAIN phone : i > 1 => phone[i] \in Digits
          /\ Len(phone) >= 7

(* C16: a phone of the JSON path is a non-empty string of digits, of any   *)
(* length; a phone of the DOM path is made of digits and '+' characters,   *)
(* wherever they stood in the text, and is at least 7 characters long.     *)
C16_PhoneNormalized ==
    /\ (JsonReturnedRecord /\ "phone" \in DOMAIN JsonRecord) =>
          LET phone == JsonRecord.phone.v IN
          /\ JsonRecord.phone.t = "str"
          /\ \A i \in DOMAIN phone : phone[i] \in Digits
          /\ Len(phone) >= 1
    /\ (DomReturnedRecord /\ "phone" \in DOMAIN DomRecord) =>
          LET phone == DomRecord.phone IN
          /\ \A i \in DOMAIN phone : phone[i] \in Digits \cup {"+"}
          /\ Len(phone) >= 7

(* The DOM extractor has returned a phone with a '+' inside. *)
C16_Witness ==
    /\ DomReturnedRecord
    /\ "phone" \in DOMAIN DomRecord
    /\ DomRecord.phone = <<"5", "5", "5", "+", "0", "1", "0", "0">>

(* The heading texts the name resolution has read. *)
HeadingTexts == dom_page.h1_texts \o dom_page.heading_texts

(* C17: every record the DOM extractor returns has a name that is trimmed  *)
(* and longer than 2 characters, read from a heading; when the name        *)
(* resolution was not reached or read no heading text whose trimmed form   *)
(* is longer than 2 characters, no record is returned.                     *)
C17_NameRequired ==
    dom_pc = "done" =>
        LET Long(text) == Len(strip(text)) > 2 IN
        /\ dom_result # None =>
              /\ "name" \in DOMAIN DomRecord
              /\ Len(DomRecord.name) > 2
              /\ strip(DomRecord.name) = DomRecord.name
              /\ \E i \in DOMAIN HeadingTexts :
                    strip(HeadingTexts[i]) = DomRecord.name
        /\ (~dom_page.name_tried \/ SelectSeq(HeadingTexts, Long) = <<>>) =>
              dom_result = None

(* A record has been returned whose name is the second h1 text, the first  *)
(* being too short once trimmed.                                           *)
C17_Witness ==
    /\ DomReturnedRecord
    /\ dom_page.h1_texts = << <<" ", "A", "b", " ">>, <<" ", "B", "a", "r", " ">> >>
    /\ DomRecord.name = <<"B", "a", "r">>

(* C18: the DOM extractor ends without having reached the name resolution  *)
(* exactly when neither the h1 nor the level-1 heading-role element became *)
(* visible within its wait.                                                *)
C18_AnchorMissingOnly ==
    dom_pc = "done" =>
        (~dom_page.name_tried <=> dom_page.anchor = "none")


(* ---------------------------------------------------------------------- *)
(* Feed loop: stop conditions                                              *)
(* ---------------------------------------------------------------------- *)
(* The accumulated set has reached the supplied maximum. *)
AtMaximum ==
    max_places # NoMax /\ Cardinality(place_links) >= max_places

(* The feed loop has been left by one of its breaks. *)
FeedStopped == strategy = "FEED_SCROLL" /\ pc = "zero_check"

(* The feed loop has finished an iteration and starts the next one. *)
FeedContinues ==
    strategy = "FEED_SCROLL" /\ pc = "feed_scroll" /\ session # SessionStart

(* C21: in each FEED_SCROLL iteration the stop conditions are evaluated in *)
(* priority order: (1) the set has reached the supplied maximum, (2) the   *)
(* scroll extent is unchanged and the end-of-list marker is present, (3)   *)
(* the extent is unchanged and no new link was merged for 5 iterations in  *)
(* a row.  The loop stops exactly when one of them holds, for the first    *)
(* that holds, and goes on otherwise; it never stops in an iteration in    *)
(* which the extent changed and the maximum is not reached.  (Leaving the  *)
(* loop by an exception is not a stop of the loop.)                        *)
C21_StopConditions ==
    /\ FeedStopped =>
         /\ session.stop_reason \in {"max", "end_marker", "stalled"}
         /\ session.stop_reason = "max" => AtMaximum
         /\ session.stop_reason = "end_marker" =>
              /\ ~AtMaximum
              /\ ~session.changed /\ session.end_marker
         /\ session.stop_reason = "stalled" =>
              /\ ~AtMaximum
              /\ ~session.changed /\ ~session.end_marker
              /\ session.quiet_run = 5
    /\ (strategy = "FEED_SCROLL" /\ pc = "feed_height") => ~AtMaximum
    /\ FeedContinues =>
         /\ ~AtMaximum
         /\ session.stop_reason = "none"
         /\ ~(~session.changed /\ session.end_marker)
         /\ ~(~session.changed /\ session.quiet_run >= 5)

(* The loop stalled after a new link had restarted the count, and another  *)
(* run went on after an iteration that changed the extent.                 *)
C21_Witness ==
    /\ FeedStopped
    /\ session.stop_reason = "stalled"
    /\ session.new_in_run
    /\ max_places # NoMax

(* C22 as stated: for a feed whose scroll extent last changes in iteration *)
(* k, that never shows the end-of-list marker and never reaches the        *)
(* maximum, FEED_SCROLL stops in iteration k+5, not earlier and not later. *)
C22_StallBoundAsStated ==
    /\ (FeedStopped /\ session.stop_reason = "stalled") =>
         session.unchanged_run = 5
    /\ (FeedContinues /\ ~session.changed) => session.unchanged_run < 5

(* C22, amended: for a feed whose scroll extent last changes in iteration  *)
(* k, that never shows the end-of-list marker, never reaches the maximum   *)
(* and yields no new link after iteration k, FEED_SCROLL stops in          *)
(* iteration k+5, not earlier and not later; with new links after          *)
(* iteration k it never stops as stalled before iteration k+5.             *)
C22_StallBound ==
    /\ (FeedStopped /\ session.stop_reason = "stalled") =>
         /\ session.unchanged_run >= 5
         /\ ~session.new_in_run => session.unchanged_run = 5
    /\ (FeedContinues /\ ~session.changed /\ ~session.new_in_run) =>
         session.unchanged_run < 5

(* The loop stalled five iterations after the extent last changed. *)
C22_Witness ==
    /\ FeedStopped
    /\ session.stop_reason = "stalled"
    /\ ~session.new_in_run
    /\ session.unchanged_run = 5
    /\ place_links # {}

(* C23: when FEED_SCROLL stops because the accumulated set reached the     *)
(* supplied maximum, the set is trimmed to exactly max_places links, and   *)
(* every link left is one collected from the feed during this run.         *)
C23_TrimmedToMaximum ==
    (FeedStopped /\ session.stop_reason = "max") =>
        /\ Cardinality(place_links) = max_places
        /\ place_links \subseteq observed

(* A link collected from the feed was trimmed away. *)
C23_Witness ==
    /\ FeedStopped
    /\ session.stop_reason = "max"
    /\ observed \ place_links # {}

(* ---------------------------------------------------------------------- *)
(* Diagnostic snapshots                                                    *)
(* ---------------------------------------------------------------------- *)
(* Number of snapshots taken so far for the given reason. *)
SnapshotCount(taken, reason) ==
    Cardinality({ i \in DOMAIN taken : taken[i] = reason })

(* C26: on reaching DONE a "zero_results" snapshot is emitted if and only  *)
(* if the final link set is empty; it is emitted at most once per run and  *)
(* before any per-link processing.                                         *)
C26_ZeroResultsSnapshot ==
    [][ /\ SnapshotCount(snapshots', "zero_results")
              # SnapshotCount(snapshots, "zero_results") =>
            /\ pc = "zero_check"
            /\ place_links = {}
            /\ SnapshotCount(snapshots, "zero_results") = 0
            /\ SnapshotCount(snapshots', "zero_results") = 1
            /\ processed = <<>>
        /\ (pc = "zero_check" /\ place_links = {}) =>
            SnapshotCount(snapshots', "zero_results") = 1
        /\ pc = "zero_check" => (pc' = "links" /\ place_links' = place_links)
      ]_vars

(* The run ended with the snapshot of an empty discovery. *)
C26_Witness ==
    /\ pc = "returned"
    /\ SnapshotCount(snapshots, "zero_results") = 1
    /\ results = <<>>

(* C27: a failure while writing a diagnostic snapshot has no effect on     *)
(* control flow: whatever the attempt wrote, nothing is raised, the run    *)
(* goes on with the step it would have taken after a complete write, and   *)
(* the link set and the result list are as before the attempt.             *)
C27_SnapshotFailureSwallowed ==
    [][ snapshots' # snapshots =>
            /\ exc' = exc /\ caught' = caught /\ abortedAt' = abortedAt
            /\ pc' = (IF pc = "feed_wait" THEN "select_strategy" ELSE "links")
            /\ place_links' = place_links
            /\ results' = results
      ]_vars

(* A snapshot whose HTML file could not be written, in a run that went on  *)
(* to collect links and ended normally.                                    *)
C27_Witness ==
    /\ snapshots = <<"feed_not_found">>
    /\ <<"feed_not_found", "html">> \notin artifacts
    /\ place_links # {}
    /\ pc = "returned"
    /\ exc = "none"
    /\ caught = "none"


(* ---------------------------------------------------------------------- *)
(* collect_place_links_global on a page with more links                    *)
(* ---------------------------------------------------------------------- *)
MaxGlobalLinks == 4    \* place URLs that page can ever show: 1..MaxGlobalLinks
GlobalLinks == 1..MaxGlobalLinks

(* scrape_google_maps at the call of collect_place_links_global: the feed  *)
(* wait timed out on a page that is not a place page, and the              *)
(* feed_not_found snapshot was attempted.                                  *)
InitGlobal ==
    /\ pc = "global"
    /\ max_places \in MaxPlacesArgs
    /\ browser = "open"
    /\ exc = "none"
    /\ caught = "none"
    /\ abortedAt = "none"
    /\ buttons = {}
    /\ dismissed = FALSE
    /\ label = 1
    /\ clicked = <<>>
    /\ feed_found = FALSE
    /\ strategy = "GLOBAL_FALLBACK"
    /\ place_links = {}
    /\ new_links_found = FALSE
    /\ last_height = 0
    /\ scroll_attempts_no_new = 0
    /\ global_place_links = {}
    /\ global_scroll_attempts_no_new = 0
    /\ scroll_iteration = 0
    /\ observed = {}
    /\ snapshots = <<"feed_not_found">>
    /\ artifacts \in SnapshotOutcomes("feed_not_found")
    /\ session = SessionStart
    /\ todo = {}
    /\ link = 0
    /\ processed = <<>>
    /\ json_none = {}
    /\ dom_tried = {}
    /\ results = <<>>
    /\ ExtractorsIdle

(* collect_place_links_global on a page that can show MaxGlobalLinks       *)
(* different place links.                                                  *)
GlobalIterateWide == GlobalIterateOn(GlobalLinks)

NextGlobal == GlobalIterateWide

SpecGlobal == InitGlobal /\ [][NextGlobal]_vars

(* collect_place_links_global has returned to scrape_google_maps. *)
GlobalReturned == strategy = "GLOBAL_FALLBACK" /\ pc = "zero_check"

(* C24: GLOBAL_FALLBACK performs at most 20 collect-and-scroll iterations  *)
(* in any run, whatever the page returns, and returns the links            *)
(* accumulated up to the point it stops, also when a page operation fails  *)
(* in the middle of the loop.                                              *)
C24_GlobalBounded ==
    /\ pc = "global" =>
         /\ scroll_iteration < 20
         /\ global_place_links = observed
    /\ GlobalReturned =>
         /\ session.iterations <= 20
         /\ place_links = observed

(* The wheel gesture of the twentieth iteration failed, and the links      *)
(* collected in the twenty iterations were returned.                       *)
C24_Witness ==
    /\ GlobalReturned
    /\ session.stop_reason = "error"
    /\ session.iterations = 20
    /\ place_links = GlobalLinks


(* ---------------------------------------------------------------------- *)
(* The two discovery loops on the same observations                        *)
(* ---------------------------------------------------------------------- *)
(* Everything but call. *)
callFrame == <<html_content, json_pc, json_result, dom_pc, dom_page,
               place_details, dom_result, max_places, pc, browser, exc,
               caught, abortedAt, consentVars, discoveryVars, loopVars>>

(* Only a function is being run, on its own. *)
OnlyFunction ==
    /\ pc = "function"
    /\ NotStarted
    /\ JsonIdle
    /\ DomIdle

(* The feed loop before its first iteration: place_links = set(),          *)
(* scroll_attempts_no_new = 0, last_height = the feed's scrollHeight.      *)
FeedStart(height) ==
    [links |-> {}, attempts |-> 0, last_height |-> height, stop |-> "none"]

(* collect_place_links_global before its first iteration. *)
GlobalStart ==
    [links |-> {}, attempts |-> 0, iteration |-> 0, stop |-> "none"]

(* One iteration of the feed loop (scraper.py 358-394) in which no page    *)
(* operation fails: the states it can end in, given the hrefs collected,   *)
(* the scroll extent read and whether the end-of-list marker is there.     *)
FeedIterations(st, current_links, new_height, end_marker, max) ==
    LET merged == Merge(st.links, current_links)
        found == (current_links \ st.links # {})
    IN
    IF MaxReached(merged, max)
    THEN { [st EXCEPT !.links = trimmed, !.stop = "max"] :
             trimmed \in Trims(merged, max) }
    ELSE IF new_height = st.last_height
    THEN IF end_marker
         THEN { [st EXCEPT !.links = merged, !.stop = "end_marker"] }
         ELSE IF ~found
         THEN { [st EXCEPT !.links = merged,
                           !.attempts = st.attempts + 1,
                           !.stop = IF Stalled(st.attempts + 1)
                                    THEN "stalled" ELSE "none"] }
         ELSE { [st EXCEPT !.links = merged, !.attempts = 0] }
    ELSE { [st EXCEPT !.links = merged, !.last_height = new_height,
                      !.attempts = 0] }

(* One iteration of the loop of collect_place_links_global (scraper.py     *)
(* 234-264) in which no page operation fails.  It reads neither the        *)
(* scroll extent nor the end-of-list marker.                               *)
GlobalIteration(st, current_links, max) ==
    LET merged == Merge(st.links, current_links)
        found == (current_links \ st.links # {})
        attempts == IF found THEN 0 ELSE st.attempts + 1
    IN
    IF GlobalMaxReached(merged, max)
    THEN [st EXCEPT !.links = merged, !.stop = "max"]
    ELSE IF Stalled(attempts)
    THEN [st EXCEPT !.links = merged, !.attempts = attempts, !.stop = "stalled"]
    ELSE IF st.iteration + 1 >= GLOBAL_MAX_ITERATIONS
    THEN [st EXCEPT !.links = merged, !.attempts = attempts, !.stop = "cap"]
    ELSE [st EXCEPT !.links = merged, !.attempts = attempts,
                    !.iteration = st.iteration + 1]

(* Maximum values the two loops are compared on: none, 0, 1, ... *)
ComparedMaxima == {NoMax} \cup (0..MaxPlacesArg)

(* Both loops are about to start, with the same maximum. *)
InitBoth ==
    /\ OnlyFunction
    /\ max_places \in ComparedMaxima
    /\ \E height \in Heights :
         call = [fn |-> "discovery_loops", args |-> <<>>, done |-> FALSE,
                 result |-> [feed |-> FeedStart(height), global |-> GlobalStart]]

(* Both loops run one iteration on the same observations, as long as       *)
(* neither has stopped.                                                    *)
BothIterate ==
    /\ call.fn = "discovery_loops"
    /\ ~call.done
    /\ \E current_links \in SUBSET Links, new_height \in Heights,
          end_marker \in BOOLEAN :
         \E feed \in FeedIterations(call.result.feed, current_links,
                                    new_height, end_marker, max_places) :
            LET global == GlobalIteration(call.result.global, current_links,
                                          max_places)
            IN call' = [call EXCEPT
                          !.result = [feed |-> feed, global |-> global],
                          !.done = (feed.stop # "none" \/ global.stop # "none")]
    /\ UNCHANGED callFrame

NextBoth == BothIterate

SpecBoth == InitBoth /\ [][NextBoth]_vars

(* C25: GLOBAL_FALLBACK applies the same accumulate/stop logic as          *)
(* FEED_SCROLL: run on the same sequence of observations (links seen,      *)
(* scroll extent, end marker, maximum) both stop in the same iteration,    *)
(* for the same reason, with the same link set, the trim to the maximum    *)
(* included, except that GLOBAL_FALLBACK also stops at its cap of 20       *)
(* iterations.                                                             *)
C25_SameStopLogic ==
    (call.fn = "discovery_loops" /\ call.done) =>
        \/ call.result.global.stop = "cap"
        \/ /\ call.result.feed.stop = call.result.global.stop
           /\ call.result.feed.links = call.result.global.links


(* ---------------------------------------------------------------------- *)
(* Functions of the extractor run on their own                             *)
(* ---------------------------------------------------------------------- *)
MaxPathLen == 3        \* longest path handed to safe_get
MaxIndex == 2          \* largest index in a path; the smallest is -1
MaxScanLen == 6        \* longest list handed to _scan_for_data_blob

(* A function is called with the given arguments. *)
Called(fn, args) ==
    /\ OnlyFunction
    /\ max_places = NoMax
    /\ call = [fn |-> fn, args |-> args, done |-> FALSE, result |-> <<>>]

(* The call runs to its return. *)
Returns(fn, result) ==
    /\ call.fn = fn
    /\ ~call.done
    /\ call' = [call EXCEPT !.done = TRUE, !.result = result]
    /\ UNCHANGED callFrame

(* Values safe_get is tried on: scalars, an empty list, lists and dicts    *)
(* nested in each other.                                                   *)
WalkValues ==
    { Null, Num(7), Str(<<"a">>), Arr(<<>>),
      Arr(<<Num(1),
            Arr(<<Null, Obj(<< <<"a", Num(3)>> >>)>>),
            Str(<<"x">>)>>),
      Obj(<< <<"a", Arr(<<Num(4), Num(5)>>)>>, <<"b", Null>> >>) }

(* Keys of the paths: indices from -1 up, two strings, and a float. *)
WalkKeys ==
    { Index(n) : n \in (0 - 1)..MaxIndex } \cup { Key("a"), Key("z"), OtherKey }

InitSafeGet ==
    \E data \in WalkValues, keys \in BoundedSeq(WalkKeys, MaxPathLen) :
        Called("safe_get", <<data, keys>>)

SafeGetCall ==
    Returns("safe_get", safe_get(call.args[1], call.args[2]))

(* sum(1 for x in item if isinstance(x, (list, dict))) *)
nested_count(item) ==
    Cardinality({ j \in DOMAIN item.v : item.v[j].t \in {"arr", "obj"} })

(* The test of the scan with both thresholds lowered. *)
LooksLikeBlobSmall(item) ==
    item.t = "arr" /\ Len(item.v) >= 5 /\ nested_count(item) >= 1

(* isinstance(item, list) and len(item) >= 10, and nested_count >= 3 *)
LooksLikeBlob(item) ==
    item.t = "arr" /\ Len(item.v) >= 10 /\ nested_count(item) >= 3

(* for i, item in enumerate(data_list), from index i on: the first item    *)
(* that passes the test is returned, None when the list is exhausted.      *)
RECURSIVE ScanFrom(_, _)
ScanFrom(items, i) ==
    IF i > Len(items) THEN Null
    ELSE IF LooksLikeBlob(items[i]) THEN items[i]
    ELSE ScanFrom(items, i + 1)

(* _scan_for_data_blob(data_list) *)
scan_for_data_blob(data_list) ==
    IF data_list.t # "arr" THEN Null ELSE ScanFrom(data_list.v, 1)

(* A list of the given length whose first elements are a dict and lists,   *)
(* the rest numbers.                                                       *)
ListOf(length, nested) ==
    Arr([ j \in 1..length |->
            IF j > nested THEN Num(length)
            ELSE IF j = 1 THEN Obj(<<>>) ELSE Arr(<<>>) ])

(* Elements of the scanned list: not a list, too short, long enough but    *)
(* too few nested elements, and long enough with enough of them.           *)
ScanItems ==
    { Null, ListOf(5, 1), ListOf(9, 3), ListOf(10, 2), ListOf(10, 3),
      ListOf(12, 4) }

InitScan ==
    \/ \E data_list \in { Null, Obj(<<>>) } :
           Called("_scan_for_data_blob", <<data_list>>)
    \/ \E items \in BoundedSeq(ScanItems, MaxScanLen) :
           Called("_scan_for_data_blob", <<Arr(items)>>)

ScanCall ==
    Returns("_scan_for_data_blob", scan_for_data_blob(call.args[1]))


(* ---------------------------------------------------------------------- *)
(* parse_json_data(json_str).  A text is a sequence of tokens; " " is      *)
(* whitespace.                                                             *)
(* ---------------------------------------------------------------------- *)
(* The text a string's content takes between the quotes of a JSON          *)
(* document.                                                               *)
Escaped(s) == [ i \in DOMAIN s |-> IF s[i] = "\"" THEN "\\\"" ELSE s[i] ]

(* The JSON document of a value, as the page's server writes it. *)
RECURSIVE dumps(_), DumpsItems(_), DumpsPairs(_)
dumps(x) ==
    CASE x.t = "null" -> <<"null">>
      [] x.t = "bool" -> <<IF x.v THEN "true" ELSE "false">>
      [] x.t = "num"  -> <<ToString(x.v)>>
      [] x.t = "str"  -> <<"\"">> \o Escaped(x.v) \o <<"\"">>
      [] x.t = "arr"  -> <<"[">> \o DumpsItems(x.v) \o <<"]">>
      [] x.t = "obj"  -> <<"{">> \o DumpsPairs(x.v) \o <<"}">>

DumpsItems(items) ==
    IF items = <<>> THEN <<>>
    ELSE IF Len(items) = 1 THEN dumps(items[1])
    ELSE dumps(items[1]) \o <<",">> \o DumpsItems(Tail(items))

DumpsPairs(pairs) ==
    IF pairs = <<>> THEN <<>>
    ELSE LET first == <<"\"", pairs[1][1], "\"", ":">> \o dumps(pairs[1][2]) IN
         IF Len(pairs) = 1 THEN first
         ELSE first \o <<",">> \o DumpsPairs(Tail(pairs))

(* The prefix ")]}'\n" that guards the inner document. *)
Prefix == ")]}'\n"

(* Values that stand behind the prefix or in a bare string: a list with a  *)
(* list at offset 6, with something else there, shorter lists, with and    *)
(* without an element the scan accepts, and values that are not lists.     *)
InnerValues ==
    { Arr(<<Null, Null, Null, Null, Null, Null, ListOf(10, 3)>>),
      Arr(<<ListOf(12, 4), Null, Null, Null, Null, Null, ListOf(10, 3)>>),
      Arr(<<Null, Null, Null, Null, Null, Null, Arr(<<>>)>>),
      Arr(<<Null, ListOf(12, 4), Null, Null, Null, Null, Num(1)>>),
      Arr(<<Null, Null, Null, Null, Null, Null, Num(1)>>),
      Arr(<<Null, ListOf(10, 3)>>),
      Arr(<<ListOf(5, 1)>>),
      Arr(<<>>),
      Obj(<< <<"a", Num(1)>> >>),
      Num(5) }

(* Texts that are not JSON documents. *)
BadTexts == { <<>>, <<"x">>, <<"[", "1">>, <<"{">> }

InnerTexts == { dumps(v) : v \in InnerValues } \cup BadTexts

(* What a string at [3][6] can start with and end with. *)
Leads == { <<>>, <<" ">>, <<Prefix>>, <<" ", Prefix>>, <<")]}'">> }
Ends == { <<>>, <<" ">> }

(* What can stand at [3][6]. *)
Xs ==
    { Null, Num(1), Obj(<<>>), Arr(<<>>), ListOf(10, 3), ListOf(5, 1) }
        \cup { Str(lead \o text \o end) :
                 lead \in Leads, text \in InnerTexts, end \in Ends }

(* A decoded APP_INITIALIZATION_STATE with x at [3][6]. *)
Outer(x) ==
    Arr(<<Null, Null, Null, Arr(<<Null, Null, Null, Null, Null, Null, x>>)>>)

(* Decoded values without an element at [3][6], and those with one. *)
OuterValues ==
    { Num(1), Obj(<<>>), Arr(<<>>), Arr(<<Null, Null, Null>>),
      Arr(<<Null, Null, Null, Num(1)>>),
      Arr(<<Null, Null, Null, Arr(<<Null, Null, Null, Null, Null, Null>>)>>) }
        \cup { Outer(x) : x \in Xs }

(* The documents json.loads meets, each with the value it stands for. *)
DecodeTable ==
    { <<dumps(v), v>> : v \in OuterValues \cup InnerValues }

JSONDecodeError == [t |-> "exc", v |-> "JSONDecodeError"]

(* json.loads(text): whitespace around the document is skipped; a text     *)
(* that is no document raises JSONDecodeError.                             *)
loads(text) ==
    LET hits == { entry \in DecodeTable : entry[1] = strip(text) } IN
    IF hits = {} THEN JSONDecodeError
    ELSE (CHOOSE entry \in hits : TRUE)[2]

(* The prefixed case without the scan. *)
PrefixedPayloadNoScan(json_str_inner) ==
    LET actual_data == loads(json_str_inner) IN
    IF actual_data.t = "exc" THEN Null
    ELSE IF actual_data.t = "arr" /\ Len(actual_data.v) > 6
    THEN LET potential_data_blob == safe_get(actual_data, <<Index(6)>>) IN
         IF potential_data_blob.t = "arr"
         THEN potential_data_blob
         ELSE Null
    ELSE Null

(* Case 2a (extractor.py 85-108): decode what follows the prefix; the      *)
(* list at offset 6 of a list longer than 6, else the scan of a list,      *)
(* else None; a text that cannot be decoded gives None.                    *)
PrefixedPayload(json_str_inner) ==
    LET actual_data == loads(json_str_inner) IN
    IF actual_data.t = "exc" THEN Null
    ELSE IF actual_data.t = "arr" /\ Len(actual_data.v) > 6
    THEN LET potential_data_blob == safe_get(actual_data, <<Index(6)>>) IN
         IF potential_data_blob.t = "arr"
         THEN potential_data_blob
         ELSE scan_for_data_blob(actual_data)
    ELSE IF actual_data.t = "arr"
    THEN scan_for_data_blob(actual_data)
    ELSE Null

(* Case 2b (extractor.py 113-133): decode the stripped string. *)
DirectPayload(stripped_data) ==
    LET parsed_data == loads(stripped_data) IN
    IF parsed_data.t = "exc" THEN Null
    ELSE IF parsed_data.t = "arr"
    THEN IF Len(parsed_data.v) > 6 /\ parsed_data.v[7].t = "arr"
         THEN parsed_data.v[7]
         ELSE scan_for_data_blob(parsed_data)
    ELSE Null

(* parse_json_data(json_str): json_str is None or a text; every exception  *)
(* is caught inside and turned into None.                                  *)
parse_json_data(json_str) ==
    IF json_str.t = "null" \/ json_str.v = <<>>
    THEN Returned(Null)
    ELSE LET initial_data == loads(json_str.v) IN
    IF initial_data.t = "exc"
    THEN Returned(Null)
    ELSE IF /\ initial_data.t = "arr"
            /\ Len(initial_data.v) > 3
            /\ initial_data.v[4].t = "arr"
            /\ Len(initial_data.v[4].v) > 6
    THEN LET data_blob_or_str == initial_data.v[4].v[7] IN
         IF data_blob_or_str.t = "arr"
         THEN Returned(data_blob_or_str)
         ELSE IF data_blob_or_str.t = "str"
         THEN LET stripped_data == strip(data_blob_or_str.v) IN
              IF data_blob_or_str.v # <<>> /\ Head(data_blob_or_str.v) = Prefix
              THEN Returned(PrefixedPayload(Tail(data_blob_or_str.v)))
              ELSE IF stripped_data # <<>> /\ Head(stripped_data) \in {"[", "{"}
              THEN Returned(DirectPayload(stripped_data))
              ELSE Returned(Null)
         ELSE Returned(Null)
    ELSE Returned(Null)

(* The texts parse_json_data is called with: None, documents with and      *)
(* without whitespace in front, and texts that are no documents.           *)
JsonStrs ==
    { Null }
        \cup { Str(lead \o dumps(v)) : lead \in Ends, v \in OuterValues }
        \cup { Str(text) : text \in BadTexts }

InitParse ==
    \E json_str \in JsonStrs : Called("parse_json_data", <<json_str>>)

ParseCall ==
    Returns("parse_json_data", parse_json_data(call.args[1]))

(* The phone search, on its own.  Leaves: lists that match the pattern,    *)
(* with and without digits in the second element, and lists that miss it   *)
(* by one condition each.                                                  *)
MaxPhoneItems == 2

OtherIcon == Str(<<"https://maps.gstatic.com/", "pin.png">>)
NoDigits == Str(<<"n", "/", "a">>)

PhoneLeaves ==
    { Null, LongPhone,
      Arr(<<PhoneIcon, LongPhone>>),
      Arr(<<PhoneIcon, ShortPhone, Null>>),
      Arr(<<PhoneIcon, NoDigits>>),
      Arr(<<PhoneIcon, NoDigits, Arr(<<PhoneIcon, ShortPhone>>)>>),
      Arr(<<PhoneIcon>>),
      Arr(<<OtherIcon, LongPhone>>),
      Arr(<<PhoneIcon, Num(112)>>),
      Arr(<<Null, ShortPhone>>) }

(* Lists of up to MaxPhoneItems leaves, and dicts with two of them. *)
PhoneBranches ==
    { Arr(items) : items \in BoundedSeq(PhoneLeaves, MaxPhoneItems) }
        \cup { Obj(<< <<"a", x>>, <<"b", y>> >>) : x, y \in PhoneLeaves }

InitPhone ==
    \/ \E data_structure \in PhoneLeaves \cup PhoneBranches :
           Called("_find_phone_recursively", <<data_structure>>)
    \/ \E branch \in PhoneBranches, leaf \in PhoneLeaves :
           \/ Called("_find_phone_recursively", <<Arr(<<branch, leaf>>)>>)
           \/ Called("_find_phone_recursively", <<Obj(<< <<"k", branch>>, <<"l", leaf>> >>)>>)

PhoneCall ==
    Returns("_find_phone_recursively", find_phone_recursively(call.args[1]))

(* ---------------------------------------------------------------------- *)
(* extract_initial_json(html_content); the parameter is called markup     *)
(* here.  The markup is a sequence of tokens: the two marker texts, "=",   *)
(* blanks and newlines, brackets and other text.                           *)
(* ---------------------------------------------------------------------- *)
MaxHtmlLen == 5

APP_INITIALIZATION_STATE == ";window.APP_INITIALIZATION_STATE"
APP_FLAGS == ";window.APP_FLAGS"
Spaces == {" ", "\n"}

(* \s* from position i: the position after the longest run of whitespace *)
RECURSIVE SkipSpaces(_, _)
SkipSpaces(text, i) ==
    IF i <= Len(text) /\ text[i] \in Spaces THEN SkipSpaces(text, i + 1) ELSE i

(* (.*?);window\.APP_FLAGS from position j, with re.DOTALL: the position   *)
(* of the nearest flags marker, 0 when there is none.                      *)
RECURSIVE UntilFlags(_, _)
(* The group matched greedily, up to the last flags marker. *)
UntilLastFlags(text, j) ==
    IF j > Len(text) THEN 0
    ELSE LET later == UntilFlags(text, j + 1) IN
         IF later # 0 THEN later
         ELSE IF text[j] = APP_FLAGS THEN j ELSE 0

UntilFlags(text, j) ==
    IF j > Len(text) THEN 0
    ELSE IF text[j] = APP_FLAGS THEN j
    ELSE UntilFlags(text, j + 1)

(* The pattern matched at position i: its group(1), or no match. *)
MatchAt(text, i) ==
    IF text[i] # APP_INITIALIZATION_STATE THEN None
    ELSE LET assign == SkipSpaces(text, i + 1) IN
         IF assign > Len(text) \/ text[assign] # "=" THEN None
         ELSE LET start == SkipSpaces(text, assign + 1)
                  flags == UntilFlags(text, start)
              IN  IF flags = 0 THEN None
                  ELSE Some(SubSeq(text, start, flags - 1))

(* re.search: the match at the leftmost position that has one *)
RECURSIVE SearchFrom(_, _)
SearchFrom(text, i) ==
    IF i > Len(text) THEN None
    ELSE IF MatchAt(text, i) # None THEN MatchAt(text, i)
    ELSE SearchFrom(text, i + 1)

(* json_str.strip() *)
StripSpaces(text) ==
    LET kept == { i \in DOMAIN text : text[i] \notin Spaces } IN
    IF kept = {} THEN <<>>
    ELSE SubSeq(text, CHOOSE i \in kept : \A j \in kept : i <= j,
                      CHOOSE i \in kept : \A j \in kept : j <= i)

(* re.search raises TypeError on markup that is no text; the except        *)
(* clause returns None.                                                    *)
extract_initial_json(markup) ==
    IF markup.t # "str" THEN Null
    ELSE LET match == SearchFrom(markup.v, 1) IN
         IF match # None
         THEN LET json_str == CHOOSE group \in match : TRUE IN
              IF StripSpaces(json_str) # <<>>
                 /\ StripSpaces(json_str)[1] \in {"[", "{"}
              THEN Str(json_str)
              ELSE Null
         ELSE Null

MarkupTokens ==
    {APP_INITIALIZATION_STATE, "=", " ", "\n", APP_FLAGS, "[", "{", "x"}

InitLocate ==
    \/ Called("extract_initial_json", <<Null>>)
    \/ \E markup \in BoundedSeq(MarkupTokens, MaxHtmlLen) :
           Called("extract_initial_json", <<Str(markup)>>)

LocateCall ==
    Returns("extract_initial_json", extract_initial_json(call.args[1]))

(* parse_json_data called again and again in one process: the texts        *)
(* parsed so far and what each call returned.  The module keeps nothing    *)
(* between calls, so each result is computed from the call's text alone.   *)
MaxParses == 3

ReparsedStrs ==
    { Null,
      Str(<<"x">>),
      Str(dumps(Outer(Num(1)))),
      Str(dumps(Outer(ListOf(10, 3)))),
      Str(dumps(Outer(Str(<<Prefix>> \o <<"x">>)))),
      Str(dumps(Outer(Str(<<Prefix>> \o
            dumps(Arr(<<Null, ListOf(12, 4), Null, Null, Null, Null,
                        Num(1)>>)))))) }

InitParses == Called("parse_json_data, repeated", <<>>)

(* A parse that falls back on the payload of the call before it. *)
ParseNextCarrying ==
    /\ call.fn = "parse_json_data, repeated"
    /\ Len(call.args) < MaxParses
    /\ \E json_str \in ReparsedStrs :
         LET returned == parse_json_data(json_str) IN
         call' = [call EXCEPT
                    !.args = Append(@, json_str),
                    !.result = Append(@, IF returned = Returned(Null)
                                            /\ call.result # <<>>
                                         THEN call.result[Len(call.result)]
                                         ELSE returned)]
    /\ UNCHANGED callFrame

ParseNext ==
    /\ call.fn = "parse_json_data, repeated"
    /\ Len(call.args) < MaxParses
    /\ \E json_str \in ReparsedStrs :
         call' = [call EXCEPT
                    !.args = Append(@, json_str),
                    !.result = Append(@, parse_json_data(json_str))]
    /\ UNCHANGED callFrame

InitFunctions ==
    InitSafeGet \/ InitScan \/ InitParse \/ InitPhone \/ InitLocate \/ InitParses

NextFunctions ==
    \/ SafeGetCall \/ ScanCall \/ ParseCall \/ PhoneCall \/ LocateCall
    \/ ParseNext

SpecFunctions == InitFunctions /\ [][NextFunctions]_vars


(* A call of fn has returned. *)
HasReturned(fn) == call.fn = fn /\ call.done

(* The values a text is a document of: one, or none when it is no          *)
(* document.                                                               *)
Decodes(text) ==
    { v \in OuterValues \cup InnerValues : dumps(v) = strip(text) }

(* The element qualifies for the heuristic scan. *)
Qualifies(item) ==
    /\ item.t = "arr"
    /\ Len(item.v) >= 10
    /\ Cardinality({ j \in DOMAIN item.v : item.v[j].t \in {"arr", "obj"} }) >= 3

(* The first element that qualifies, in index order; null when none does. *)
FirstQualifying(items) ==
    LET qualifying == { i \in DOMAIN items : Qualifies(items[i]) } IN
    IF qualifying = {} THEN Null
    ELSE items[CHOOSE i \in qualifying : \A j \in qualifying : i <= j]

(* The payload a decoded inner value gives. *)
PayloadOf(actual) ==
    IF actual.t = "arr" /\ Len(actual.v) > 6 /\ actual.v[7].t = "arr"
    THEN actual.v[7]
    ELSE IF actual.t = "arr" THEN FirstQualifying(actual.v)
    ELSE Null

(* The payload the text of an inner document gives. *)
PayloadOfText(text) ==
    IF Decodes(text) = {} THEN Null
    ELSE PayloadOf(CHOOSE v \in Decodes(text) : TRUE)

(* The payload the cascade gives for X = decoded[3][6]. *)
PayloadOfX(x) ==
    IF x.t = "arr" THEN x
    ELSE IF x.t = "str"
    THEN IF x.v # <<>> /\ x.v[1] = ")]}'\n"
         THEN PayloadOfText(Tail(x.v))
         ELSE IF strip(x.v) # <<>> /\ strip(x.v)[1] \in {"[", "{"}
         THEN PayloadOfText(x.v)
         ELSE Null
    ELSE Null

(* The value the located text decodes to has an element at [3][6]. *)
HasX(decoded) ==
    /\ decoded.t = "arr"
    /\ Len(decoded.v) > 3
    /\ decoded.v[4].t = "arr"
    /\ Len(decoded.v[4].v) > 6

(* C28: the parser cascade on X = decoded[3][6]: X an Array is returned    *)
(* as the payload blob; X a String with the anti-hijacking prefix is       *)
(* stripped of it and decoded, giving the offset-6 element when the        *)
(* decoded value is an Array longer than 6 whose offset-6 element is an    *)
(* Array, else the heuristic scan of the decoded value if that is an       *)
(* Array, else failure; X a String whose trimmed form starts with '[' or   *)
(* '{' is decoded and treated the same way; every other case (X neither    *)
(* Array nor String, an unrecognized String, no [3][6], undecodable text)  *)
(* fails with no payload, and nothing is ever raised.                      *)
C28_ParserCascade ==
    HasReturned("parse_json_data") =>
        LET json_str == call.args[1]
            decoded == IF json_str.t = "null" THEN {} ELSE Decodes(json_str.v)
            with_x == { d \in decoded : HasX(d) }
        IN
        /\ ~call.result.raised
        /\ call.result.value =
              IF with_x = {} THEN Null
              ELSE PayloadOfX((CHOOSE d \in with_x : TRUE).v[4].v[7])

(* The payload came out of a prefixed string by the heuristic scan, the    *)
(* decoded list being longer than 6 with no list at offset 6.              *)
C28_Witness ==
    /\ HasReturned("parse_json_data")
    /\ call.args[1] =
         Str(dumps(Outer(Str(<<")]}'\n">> \o
               dumps(Arr(<<Null, ListOf(12, 4), Null, Null, Null, Null,
                           Num(1)>>))))))
    /\ call.result = Returned(ListOf(12, 4))

(* C29: the heuristic scan returns the first element, in index order,      *)
(* that is an Array of length at least 10 with at least 3 elements that    *)
(* are Arrays or Objects, and fails when no element qualifies.             *)
C29_FirstQualifyingElement ==
    HasReturned("_scan_for_data_blob") =>
        LET data_list == call.args[1] IN
        IF data_list.t = "arr"
           /\ \E i \in DOMAIN data_list.v : Qualifies(data_list.v[i])
        THEN \E i \in DOMAIN data_list.v :
               /\ Qualifies(data_list.v[i])
               /\ \A j \in 1..(i - 1) : ~Qualifies(data_list.v[j])
               /\ call.result = data_list.v[i]
        ELSE call.result.t = "null"

(* Candidates at index 2 (length 5, 1 nested) and at index 5 (length 12,   *)
(* 4 nested): the element at index 5 is returned.                          *)
C29_Witness ==
    /\ HasReturned("_scan_for_data_blob")
    /\ call.args[1] =
         Arr(<<Null, Null, ListOf(5, 1), Null, Null, ListOf(12, 4)>>)
    /\ call.result = ListOf(12, 4)

(* The step from value by key is one the walk can take. *)
ValidStep(value, key) ==
    \/ /\ value.t = "arr"
       /\ key.kind = "int"
       /\ key.key \in 0..(Len(value.v) - 1)
    \/ /\ value.t = "obj"
       /\ key.kind = "str"
       /\ \E i \in DOMAIN value.v : value.v[i][1] = key.key

(* The element that step leads to. *)
StepTo(value, key) ==
    IF value.t = "arr" THEN value.v[key.key + 1]
    ELSE value.v[CHOOSE i \in DOMAIN value.v : value.v[i][1] = key.key][2]

(* Where the first n keys of the path lead from data: one value, or none   *)
(* when one of the steps is not valid.                                     *)
RECURSIVE Walked(_, _, _)
Walked(data, keys, n) ==
    IF n = 0 THEN Some(data)
    ELSE LET before == Walked(data, keys, n - 1) IN
         IF before = None THEN None
         ELSE LET value == CHOOSE v \in before : TRUE IN
              IF ValidStep(value, keys[n]) THEN Some(StepTo(value, keys[n]))
              ELSE None

(* C30: safe_get on any value and any path of indices and keys: if a step  *)
(* is an out-of-range, negative or non-integer index on an Array, a        *)
(* missing key on an Object, or a step from a scalar, the result is        *)
(* absent, never an exception and never the value walked to so far; when   *)
(* every step succeeds, the result is exactly the addressed element.       *)
C30_SafeWalk ==
    HasReturned("safe_get") =>
        LET data == call.args[1]
            keys == call.args[2]
            addressed == Walked(data, keys, Len(keys))
        IN
        IF addressed = None
        THEN call.result.t = "null"
        ELSE call.result \in addressed

(* A negative index after a valid step: the walk had reached a list and    *)
(* gives nothing.                                                          *)
C30_Witness ==
    /\ HasReturned("safe_get")
    /\ call.args[1].t = "arr"
    /\ call.args[2] = <<Index(1), Index(0 - 1)>>
    /\ Walked(call.args[1], call.args[2], 1) # None
    /\ call.result.t = "null"

(* The values of a payload in depth-first order: a value, then what its    *)
(* elements (of an Array) or its values (of an Object) hold, in order.     *)
RECURSIVE Traversal(_), TraversalOfAll(_)
Traversal(x) ==
    <<x>> \o (IF x.t = "arr" THEN TraversalOfAll(x.v)
              ELSE IF x.t = "obj"
              THEN TraversalOfAll([i \in DOMAIN x.v |-> x.v[i][2]])
              ELSE <<>>)

TraversalOfAll(items) ==
    IF items = <<>> THEN <<>>
    ELSE Traversal(Head(items)) \o TraversalOfAll(Tail(items))

IsDigit(c) == c \in {"0", "1", "2", "3", "4", "5", "6", "7", "8", "9"}

(* An Array of length >= 2 with the icon marker in a String first element  *)
(* and a String second element.                                            *)
MatchesPhonePattern(x) ==
    /\ x.t = "arr"
    /\ Len(x.v) >= 2
    /\ x.v[1].t = "str"
    /\ \E i \in DOMAIN x.v[1].v : x.v[1].v[i] = "call_googblue"
    /\ x.v[2].t = "str"

(* A match whose second element has a digit. *)
IsPhoneHit(x) ==
    MatchesPhonePattern(x) /\ \E i \in DOMAIN x.v[2].v : IsDigit(x.v[2].v[i])

(* C31: the JSON-path phone search returns the digits-only form of the     *)
(* second element of the first Array, in depth-first traversal order,      *)
(* that has length >= 2, a String first element containing the icon-asset  *)
(* marker, a String second element and a non-empty digit string; a         *)
(* matching Array whose second element has no digits is not a hit and is   *)
(* searched further; with no hit the search gives nothing.                 *)
C31_FirstPhoneHit ==
    HasReturned("_find_phone_recursively") =>
        LET order == Traversal(call.args[1])
            hits == { i \in DOMAIN order : IsPhoneHit(order[i]) }
        IN
        IF hits = {} THEN call.result.t = "null"
        ELSE LET first == CHOOSE i \in hits : \A j \in hits : i <= j IN
             call.result = Str(SelectSeq(order[first].v[2].v, IsDigit))

(* A match without digits that holds a hit, followed by another hit: the   *)
(* search went into the match and returned the hit inside it.              *)
C31_Witness ==
    /\ HasReturned("_find_phone_recursively")
    /\ call.args[1] =
         Arr(<<Arr(<<Arr(<<PhoneIcon, NoDigits, Arr(<<PhoneIcon, ShortPhone>>)>>),
                     Arr(<<PhoneIcon, LongPhone>>)>>),
               Arr(<<PhoneIcon, LongPhone>>)>>)
    /\ call.result = ShortPhone

(* The application-state assignment marker stands at i..(start - 1) of     *)
(* the text: the state name, "=" with any whitespace around it, and the    *)
(* first flags marker from start on stands at flags.                       *)
IsMarkerPair(text, i, start, flags) ==
    /\ text[i] = APP_INITIALIZATION_STATE
    /\ \E assign \in (i + 1)..(start - 1) :
          /\ text[assign] = "="
          /\ \A k \in ((i + 1)..(start - 1)) \ {assign} : text[k] \in {" ", "\n"}
    /\ text[start] \notin {" ", "\n"}
    /\ text[flags] = APP_FLAGS
    /\ \A k \in start..(flags - 1) : text[k] # APP_FLAGS

MarkerPairs(text) ==
    { pair \in (DOMAIN text) \X (DOMAIN text) \X (DOMAIN text) :
        /\ pair[1] < pair[2]
        /\ pair[2] <= pair[3]
        /\ IsMarkerPair(text, pair[1], pair[2], pair[3]) }

(* The text begins, after its leading whitespace, with '[' or '{'. *)
BeginsLikeJson(text) ==
    \E i \in DOMAIN text :
        /\ text[i] \in {"[", "{"}
        /\ \A k \in 1..(i - 1) : text[k] \in {" ", "\n"}

(* C32: the JSON Locator yields the text between the application-state     *)
(* assignment marker and the first following flags marker only when that   *)
(* pair is present and the text, after trimming whitespace, begins with    *)
(* '[' or '{'; when the pair is absent, when the text starts with          *)
(* anything else, or when the markup is no text at all, it yields nothing, *)
(* raises nothing and changes nothing.                                     *)
C32_LocatorYield ==
    HasReturned("extract_initial_json") =>
        LET markup == call.args[1]
            pairs == IF markup.t = "str" THEN MarkerPairs(markup.v)
                     ELSE {}
        IN
        /\ OnlyFunction
        /\ IF pairs = {} THEN call.result.t = "null"
           ELSE LET pair == CHOOSE p \in pairs : \A q \in pairs : p[1] <= q[1]
                    between == SubSeq(markup.v, pair[2], pair[3] - 1)
                IN  IF BeginsLikeJson(between) THEN call.result = Str(between)
                    ELSE call.result.t = "null"

(* Two flags markers after the state marker, a newline in the text: the    *)
(* text up to the first flags marker is yielded.                           *)
C32_Witness ==
    /\ HasReturned("extract_initial_json")
    /\ call.args[1] = Str(<<APP_INITIALIZATION_STATE, "=", "[", "\n", APP_FLAGS>>)
    /\ call.result = Str(<<"[", "\n">>)

C34_SomeStrategyEntered ==
    pc = "zero_check" =>
        strategy \in {"FEED_SCROLL", "SINGLE_PLACE", "GLOBAL_FALLBACK"}

(* Both counters of consecutive iterations without a new link lie in 0..5. *)
CountersInRange ==
    /\ scroll_attempts_no_new \in 0..5
    /\ global_scroll_attempts_no_new \in 0..5

(* The step ends a feed iteration: by the break on the maximum, or after   *)
(* the scroll extent has been read.                                        *)
FeedIterationEnds ==
    \/ pc = "feed_scroll" /\ pc' = "zero_check"
    \/ pc = "feed_height" /\ pc' \in {"feed_scroll", "zero_check"}

(* The feed iteration that ends merged a new link, or changed the extent. *)
FeedIterationResets == new_links_found' \/ last_height' # last_height

(* The step is a global iteration after which the loop goes on. *)
GlobalIterationGoesOn == pc = "global" /\ pc' = "global"

(* No loop goes on with a counter of 5: the feed loop is left in the step  *)
(* that counts to 5, the global loop goes on from 4 only with a new link   *)
(* and stops as stalled only from 4.                                       *)
ExitsAtFive ==
    /\ (scroll_attempts_no_new' = 5 /\ scroll_attempts_no_new # 5) =>
          /\ pc' = "zero_check"
          /\ session'.stop_reason = "stalled"
    /\ pc' \in {"feed_scroll", "feed_height"} => scroll_attempts_no_new' < 5
    /\ pc' = "global" => global_scroll_attempts_no_new' < 5
    /\ (GlobalIterationGoesOn /\ global_scroll_attempts_no_new = 4) =>
          global_place_links' # global_place_links
    /\ (pc = "global" /\ session'.stop_reason = "stalled") =>
          global_scroll_attempts_no_new = 4

(* C35 as stated: in FEED_SCROLL and in GLOBAL_FALLBACK the counter of     *)
(* consecutive iterations without a new link always stays within 0..5, is  *)
(* reset to 0 in every iteration that merges a new link (and, in the       *)
(* feed, in every iteration whose scroll extent changed), and the loop     *)
(* exits in the very iteration in which the counter reaches 5.             *)
C35_CounterAsStated ==
    [][ /\ CountersInRange'
        /\ (FeedIterationEnds /\ FeedIterationResets) =>
              scroll_attempts_no_new' = 0
        /\ (GlobalIterationGoesOn /\ global_place_links' # global_place_links) =>
              global_scroll_attempts_no_new' = 0
        /\ ExitsAtFive ]_vars

(* C35, amended: the counter always stays within 0..5, is reset to 0 in    *)
(* every iteration that merges a new link (and, in the feed, in every      *)
(* iteration whose scroll extent changed) unless that iteration leaves     *)
(* the loop on the maximum or on the end-of-list marker, which leave the   *)
(* counter as it was; and the loop exits in the very iteration in which    *)
(* the counter reaches 5.                                                  *)
C35_CounterDiscipline ==
    [][ /\ CountersInRange'
        /\ (/\ FeedIterationEnds
            /\ FeedIterationResets
            /\ session'.stop_reason \notin {"max", "end_marker"}) =>
              scroll_attempts_no_new' = 0
        /\ (/\ FeedIterationEnds
            /\ session'.stop_reason \in {"max", "end_marker"}) =>
              scroll_attempts_no_new' = scroll_attempts_no_new
        /\ (GlobalIterationGoesOn /\ global_place_links' # global_place_links) =>
              global_scroll_attempts_no_new' = 0
        /\ ExitsAtFive ]_vars

(* The global loop stalled in its seventh iteration: its counter had been  *)
(* set back by an iteration that merged a new link, and then reached 5.    *)
C35_Witness ==
    /\ pc = "zero_check"
    /\ strategy = "GLOBAL_FALLBACK"
    /\ session.stop_reason = "stalled"
    /\ session.iterations = 7
    /\ place_links # {}

====
